---- MODULE Spec2Model ----
(***************************************************************************)
(* Model of the translation gateway (app/azure, app/common/sse.py).        *)
(*                                                                         *)
(* Spec       one downstream stream of ResponseAdapter.adapt: the nested   *)
(*            generators generate / chunks_to_sse / gen_dicts, driven by   *)
(*            the consumer (next / close) and by the upstream events.      *)
(* SpecThink  the same stream over the reasoning/text event alphabet,      *)
(*            with longer event sequences.                                 *)
(* SpecNorm   RequestAdapter._normalize_call_id over one call_id_map.      *)
(* SpecMsgs   the message loop of                                          *)
(*            RequestAdapter._messages_to_responses_input_and_instructions,*)
(*            one iteration per step.                                      *)
(* SpecForward  one AzureAdapter.forward call: RequestAdapter.adapt step   *)
(*            by step, the upstream call, and the status dispatch.         *)
(* SpecSSE    sse_to_events over one upstream byte stream cut into chunks: *)
(*            SSEDecoder.feed per chunk, then end_of_input.                *)
(* SpecEncode chunks_to_sse over one list of chunks, one frame per step.   *)
(* SpecAuth   one inbound request through the url map, require_auth and    *)
(*            its view function (app/blueprint.py, app/auth.py).           *)
(* SpecWorkers  two requests handled at the same time, each with the       *)
(*            AzureAdapter and ResponseAdapter built for it.               *)
(* SpecDiag   the optional keys of the upstream body built by              *)
(*            RequestAdapter.adapt and their redaction in the report of    *)
(*            AzureAdapter._handle_azure_error.                            *)
(***************************************************************************)
EXTENDS Integers, Sequences, FiniteSets, TLC

VARIABLES
    pc,          \* position of generate(): unstarted, running, at_chunk, at_done, finished
    gpc,         \* position of gen_dicts(): unstarted, loop, finally, done
    self,        \* the ResponseAdapter instance: attribute name -> value
    res,         \* chunks of the current handler result not yet yielded (for chunk in res)
    exc,         \* exception pending behind a yield inside a finally block
    consumed,    \* upstream events gen_dicts has taken from sse_to_events, in order
    downstream,  \* frames the consumer has received from generate(), in order
    dropped,     \* values yielded into close(): never delivered to anybody
    closed,      \* number of upstream_resp.close() calls
    outcome,     \* how generate() ended
    call_id_map, \* RequestAdapter: call_id_map of the request being translated
    calls,       \* _normalize_call_id calls of that request, in order
    messages,    \* messages the for loop of the message translation has taken, in order
    input_items, \* input_items of the message translation
    item_src,    \* for each input item, the message and tool-call entry it was made for
    instructions_parts, \* instructions_parts of the message translation
    mapped,      \* what the message translation returned
    fpc,         \* position of forward() and of the adapt() it calls
    req,         \* the inbound flask Request
    adapter,     \* AzureAdapter per-request state: inbound_model, early_response
    payload,     \* adapt(): the parsed payload
    request_kwargs, \* what adapt() returned to forward()
    upstream,    \* the requests.request calls made, with what each one produced
    translated,  \* number of response_adapter.adapt calls
    fwd,         \* how forward() ended: the Response returned or the exception raised
    spc,         \* position of sse_to_events(): idle, feeding
    wire,        \* bytes of the upstream stream the chunk iterator has not produced yet
    decoder,     \* the SSEDecoder: buffer, full_buffer, _event_lines, _seq
    events,      \* events sse_to_events() has yielded, in order
    flushes,     \* number of end_of_input() calls
    epc,         \* position of chunks_to_sse(): idle, loop, done
    objs,        \* the chunks given to chunks_to_sse()
    enc_buffer,  \* chunks_to_sse(): buffer
    yielded,     \* frames chunks_to_sse() has yielded, in order
    apc,         \* position of the inbound request: idle, routed, authorized, done
    areq,        \* the inbound request: path, method, request.authorization
    aresp,       \* status of the response to the inbound request, 0 while there is none
    reached,     \* the view function that ran for the inbound request
    store,       \* the class attributes and, per worker, its request and its instances
    dpc,         \* position of the request whose body is built: idle, adapted, ...
    inbound,     \* the optional keys of its payload and its translated messages
    responses_body,  \* the body of the upstream request (request_kwargs["json"])
    report       \* the diagnostic returned for a non-success upstream status

streamVars == <<pc, gpc, self, res, exc, consumed, downstream, dropped, closed, outcome>>
normVars == <<call_id_map, calls>>
msgVars == <<messages, input_items, item_src, instructions_parts, mapped>>
fwdVars == <<fpc, req, adapter, payload, request_kwargs, upstream, translated, fwd>>
sseVars == <<spc, wire, decoder, events, flushes>>
encVars == <<epc, objs, enc_buffer, yielded>>
authVars == <<apc, areq, aresp, reached>>
diagVars == <<dpc, inbound, responses_body, report>>
otherVars == <<sseVars, encVars, authVars, store, diagVars>>
vars == <<pc, gpc, self, res, exc, consumed, downstream, dropped, closed, outcome,
          call_id_map, calls,
          messages, input_items, item_src, instructions_parts, mapped,
          fpc, req, adapter, payload, request_kwargs, upstream, translated, fwd,
          spc, wire, decoder, events, flushes,
          epc, objs, enc_buffer, yielded,
          apc, areq, aresp, reached, store,
          dpc, inbound, responses_body, report>>

(***************************************************************************)
(* Bounds.                                                                 *)
(***************************************************************************)
MaxEvents == 3
MaxThinkEvents == 5
MaxCalls == 3
MaxMessages == 3
MaxToolCalls == 2
MaxPieces == 3
MaxChunk == 3
MaxFlushes == 2
MaxObjects == 2
MaxWorkerEvents == 2
MaxTokens == 1
MaxKeyLen == 7
MaxItems == 1

(***************************************************************************)
(* Python values.  None is Python's None (JSON null); Absent marks a key   *)
(* that a dict does not have.                                              *)
(***************************************************************************)
None == "<None>"
Absent == "<absent>"

InboundModel == "gpt-high"
StreamIds == {"chatcmpl-A"}

(***************************************************************************)
(* JSON values, as far as the handlers look into them.  t is the Python    *)
(* type json.loads returns; an object carries its "item" and "delta" keys. *)
(***************************************************************************)
JsonValue(t, s, item, itype, name, arguments, call_id, delta) ==
    [t |-> t, s |-> s, item |-> item, itype |-> itype, name |-> name,
     arguments |-> arguments, call_id |-> call_id, delta |-> delta]

JNone == JsonValue("none", Absent, Absent, Absent, Absent, Absent, Absent, Absent)
JEmptyObj == JsonValue("dict", Absent, Absent, Absent, Absent, Absent, Absent, Absent)
JArray == JsonValue("list", Absent, Absent, Absent, Absent, Absent, Absent, Absent)
JString(s) == JsonValue("str", s, Absent, Absent, Absent, Absent, Absent, Absent)
JItemNull == JsonValue("dict", Absent, None, Absent, Absent, Absent, Absent, Absent)
JItem(itype) == JsonValue("dict", Absent, "dict", itype, Absent, Absent, Absent, Absent)
JFunctionCall(name, arguments, call_id) ==
    JsonValue("dict", Absent, "dict", "function_call", name, arguments, call_id, Absent)
JDelta(d) == JsonValue("dict", Absent, Absent, Absent, Absent, Absent, Absent, d)

(***************************************************************************)
(* SSEEvent.  event is the event name, a sequence of text pieces whose     *)
(* concatenation is the name ("response." and "." are pieces of their      *)
(* own); the empty sequence stands for None and for "", which ev.event or  *)
(* "" makes the same.  data is the raw data text, kept as its class (text):*)
(* "json" parses to value, "invalid" does not parse, "blank" is empty      *)
(* after strip(), "done" is the text "[DONE]" up to surrounding blanks.    *)
(***************************************************************************)
SSEEvent(event, text, value) == [event |-> event, data |-> [text |-> text, value |-> value]]

\* mutant of is_done: no event is the sentinel
is_done_never(ev) == FALSE

\* SSEEvent.is_done
is_done(ev) == ev.data.text = "done"

\* SSEEvent.json
json(ev) ==
    IF is_done(ev) \/ ev.data.text = "blank" THEN JNone
    ELSE IF ev.data.text = "json" THEN ev.data.value
    ELSE JNone

isinstance_dict(obj) == obj.t = "dict"

RECURSIVE Join(_)
Join(pieces) == IF pieces = <<>> THEN "" ELSE Head(pieces) \o Join(Tail(pieces))

\* str.replace("response.", "")
RECURSIVE RemoveResponsePrefix(_)
RemoveResponsePrefix(pieces) ==
    IF pieces = <<>> THEN <<>>
    ELSE IF Head(pieces) = "response." THEN RemoveResponsePrefix(Tail(pieces))
    ELSE <<Head(pieces)>> \o RemoveResponsePrefix(Tail(pieces))

\* str.replace(".", "__")
RECURSIVE ReplaceDots(_)
ReplaceDots(pieces) ==
    IF pieces = <<>> THEN <<>>
    ELSE <<IF Head(pieces) = "." THEN "__" ELSE Head(pieces)>> \o ReplaceDots(Tail(pieces))

\* handler_name = "_" + (ev.event or "").replace("response.", "").replace(".", "__")
handler_name(ev) ==
    "_" \o Join(ReplaceDots(RemoveResponsePrefix(ev.event)))

(***************************************************************************)
(* The ResponseAdapter instance.  self maps the names of the instance      *)
(* attributes to their values; the class attributes are reached when the   *)
(* instance has none of that name.                                         *)
(***************************************************************************)
getattr(obj, name, default) == IF name \in DOMAIN obj THEN obj[name] ELSE default

setattr(obj, name, value) == (name :> value) @@ obj

delattr(obj, name) == [a \in (DOMAIN obj) \ {name} |-> obj[a]]

\* ResponseAdapter.__init__
ResponseAdapterInit == [adapter |-> "AzureAdapter"]

\* self.adapter.inbound_model raises AttributeError unless self.adapter is the
\* AzureAdapter the instance was built with
AdapterHasInboundModel(obj) == getattr(obj, "adapter", Absent) = "AzureAdapter"

(***************************************************************************)
(* Chunks.  A delta key the chunk does not have is Absent; tool_calls is   *)
(* the list under that key, empty when the key is missing.                 *)
(***************************************************************************)
ToolCall(id, type, name, arguments) ==
    [index |-> 0, id |-> id, type |-> type, name |-> name, arguments |-> arguments]

\* ResponseAdapter._build_completion_chunk (the caller checks AdapterHasInboundModel)
_build_completion_chunk(obj, role, content, tool_calls, finish_reason) ==
    [id |-> getattr(obj, "_chat_completion_id", None),
     object |-> "chat.completion.chunk",
     model |-> InboundModel,
     role |-> role, content |-> content, tool_calls |-> tool_calls,
     finish_reason |-> finish_reason]

ContentChunk(obj, content) == _build_completion_chunk(obj, "assistant", content, <<>>, None)

\* x or ""
OrEmpty(x) == IF x \in {None, Absent, ""} THEN "" ELSE x

(***************************************************************************)
(* Event handlers.  Each takes the instance and the parsed payload and     *)
(* gives the instance afterwards, the chunks returned and whether it       *)
(* raised.                                                                 *)
(***************************************************************************)
Returned(obj, out) == [self |-> obj, out |-> out, raised |-> FALSE]
Raised(obj) == [self |-> obj, out |-> <<>>, raised |-> TRUE]

\* the "</think>\n\n" chunk every closing handler starts with
CloseThink(obj) ==
    IF getattr(obj, "_thinking", FALSE)
    THEN [self |-> setattr(obj, "_thinking", FALSE),
          out |-> <<ContentChunk(obj, "</think>\n\n")>>]
    ELSE [self |-> obj, out |-> <<>>]

\* ResponseAdapter._output_item__added
_output_item__added(obj, o) ==
    IF ~isinstance_dict(o) THEN Returned(obj, <<>>)
    ELSE IF o.item \notin {Absent, "dict"} THEN Raised(obj)
    ELSE IF o.itype = "reasoning"
         THEN Returned(setattr(obj, "_started_thinking", TRUE), <<>>)
    ELSE IF o.itype = "function_call"
         THEN IF ~AdapterHasInboundModel(obj) THEN Raised(obj)
              ELSE LET c == CloseThink(obj) IN
                   Returned(setattr(c.self, "_called_function", TRUE),
                            c.out \o <<_build_completion_chunk(obj, "assistant", None,
                                         <<ToolCall(OrEmpty(o.call_id), "function",
                                                    OrEmpty(o.name), OrEmpty(o.arguments))>>,
                                         None)>>)
    ELSE Returned(obj, <<>>)

\* ResponseAdapter._function_call_arguments__delta
_function_call_arguments__delta(obj, o) ==
    IF ~AdapterHasInboundModel(obj) THEN Raised(obj)
    ELSE LET c == CloseThink(obj)
             arguments_delta == IF isinstance_dict(o)
                                THEN (IF o.delta = Absent THEN "" ELSE o.delta)
                                ELSE ""
         IN  Returned(c.self,
                      c.out \o <<_build_completion_chunk(obj, Absent, Absent,
                                   <<ToolCall(Absent, Absent, Absent, arguments_delta)>>,
                                   None)>>)

\* ResponseAdapter._output_item__done: returns None
_output_item__done(obj, o) == Returned(obj, <<>>)

\* ResponseAdapter._reasoning_summary_text__delta
_reasoning_summary_text__delta(obj, o) ==
    IF ~AdapterHasInboundModel(obj) THEN Raised(obj)
    ELSE LET opening == getattr(obj, "_started_thinking", FALSE)
             after == IF opening
                      THEN setattr(setattr(obj, "_thinking", TRUE), "_started_thinking", FALSE)
                      ELSE obj
             text == IF isinstance_dict(o)
                     THEN (IF o.delta = Absent THEN "" ELSE o.delta)
                     ELSE ""
         IN  Returned(after,
                      (IF opening THEN <<ContentChunk(obj, "<think>\n\n")>> ELSE <<>>)
                      \o <<ContentChunk(obj, text)>>)

\* mutant of _reasoning_summary_text__done: the done event closes the block itself
_reasoning_summary_text__done_clearing(obj, o) ==
    IF ~AdapterHasInboundModel(obj) THEN Raised(obj)
    ELSE Returned(setattr(obj, "_thinking", FALSE), <<ContentChunk(obj, "\n\n")>>)

\* ResponseAdapter._reasoning_summary_text__done
_reasoning_summary_text__done(obj, o) ==
    IF ~AdapterHasInboundModel(obj) THEN Raised(obj)
    ELSE Returned(obj, <<ContentChunk(obj, "\n\n")>>)

\* ResponseAdapter._output_text__delta
_output_text__delta(obj, o) ==
    IF ~AdapterHasInboundModel(obj) THEN Raised(obj)
    ELSE LET c == CloseThink(obj)
             text == IF isinstance_dict(o)
                     THEN (IF o.delta = Absent THEN "" ELSE o.delta)
                     ELSE ""
         IN  Returned(c.self, c.out \o <<ContentChunk(obj, text)>>)

(***************************************************************************)
(* Dispatch: the body of the for loop of gen_dicts.                        *)
(* getattr(self, handler_name, None) finds the instance attributes, then   *)
(* the attributes of the class and of object.  Of the latter the model     *)
(* keeps __init__ and __delattr__, which accept the one argument the loop  *)
(* passes and return None; the other inherited names are not represented.  *)
(***************************************************************************)
HandlerNames ==
    {"_output_item__added", "_function_call_arguments__delta", "_output_item__done",
     "_reasoning_summary_text__delta", "_reasoning_summary_text__done",
     "_output_text__delta"}

\* methods of the class that raise TypeError when called with one positional argument
HelperNames ==
    {"_create_chat_completion_id", "_filter_response_headers", "_build_completion_chunk"}

FlagNames == {"_started_thinking", "_thinking", "_called_function"}

\* bool(value) of an instance attribute whose name starts with "_"
Truthy(obj, name) ==
    IF name \in FlagNames THEN obj[name] ELSE obj[name] \notin {None, ""}

\* handler(ev.json) for one of the six event handlers
CallHandler(obj, name, o) ==
    CASE name = "_output_item__added" -> _output_item__added(obj, o)
      [] name = "_function_call_arguments__delta" -> _function_call_arguments__delta(obj, o)
      [] name = "_output_item__done" -> _output_item__done(obj, o)
      [] name = "_reasoning_summary_text__delta" -> _reasoning_summary_text__delta(obj, o)
      [] name = "_reasoning_summary_text__done" -> _reasoning_summary_text__done(obj, o)
      [] name = "_output_text__delta" -> _output_text__delta(obj, o)

\* gen_dicts, lines 234-246: one event taken from sse_to_events
Translate(obj, ev) ==
    IF is_done(ev) THEN Returned(obj, <<>>)
    ELSE LET name == handler_name(ev)
             o == json(ev)
         IN  IF name \in DOMAIN obj
             THEN \* an instance attribute, a str or a bool: not callable
                  IF Truthy(obj, name) THEN Raised(obj) ELSE Returned(obj, <<>>)
             ELSE IF name \in HandlerNames THEN CallHandler(obj, name, o)
             ELSE IF name \in HelperNames THEN Raised(obj)
             ELSE IF name = "__init__"
                  THEN \* self.adapter = ev.json
                       Returned(setattr(obj, "adapter", "ev.json"), <<>>)
             ELSE IF name = "__delattr__"
                  THEN IF o.t = "str" /\ o.s \in DOMAIN obj
                       THEN Returned(delattr(obj, o.s), <<>>)
                       ELSE Raised(obj)
             ELSE \* the class attribute _chat_completion_id = None, or no attribute
                  Returned(obj, <<>>)

(***************************************************************************)
(* Frames of the downstream body.                                          *)
(***************************************************************************)
NoChunk == [id |-> Absent, object |-> Absent, model |-> Absent, role |-> Absent,
            content |-> Absent, tool_calls |-> <<>>, finish_reason |-> Absent]

\* encode_sse_json(obj)
ChunkFrame(chunk) == [data |-> "json", obj |-> chunk]

\* done_event_bytes()
DoneFrame == [data |-> "[DONE]", obj |-> NoChunk]

\* gen_dicts, lines 249-252: the chunk the finally block yields
FinishChunk(obj) ==
    _build_completion_chunk(obj, Absent, Absent, <<>>,
        IF getattr(obj, "_called_function", FALSE) THEN "tool_calls" ELSE "stop")

(***************************************************************************)
(* The stream: generate() of ResponseAdapter.adapt and its consumer.       *)
(***************************************************************************)
StreamInit ==
    /\ pc = "unstarted"
    /\ gpc = "unstarted"
    /\ self = ResponseAdapterInit
    /\ res = <<>>
    /\ exc = FALSE
    /\ consumed = <<>>
    /\ downstream = <<>>
    /\ dropped = <<>>
    /\ closed = 0
    /\ outcome = "none"

\* mutant of GenerateFinally: close() after the yield from instead of in a finally,
\* so that it is skipped when an exception is on its way out
GenerateFinallyUnlessRaising == closed' = IF exc THEN closed ELSE closed + 1

\* generate, lines 257-258: finally: upstream_resp.close()
GenerateFinally == closed' = closed + 1

\* gen_dicts leaves its try block (line 247) with the instance obj, raising or not:
\* the finally block yields the finish chunk, which chunks_to_sse encodes and yields;
\* if building that chunk raises, gen_dicts ends and chunks_to_sse yields [DONE]
EnterFinally(obj, raising) ==
    /\ self' = obj
    /\ res' = <<>>
    /\ IF AdapterHasInboundModel(obj)
       THEN /\ downstream' = Append(downstream, ChunkFrame(FinishChunk(obj)))
            /\ pc' = "at_chunk"
            /\ gpc' = "finally"
            /\ exc' = raising
       ELSE /\ downstream' = Append(downstream, DoneFrame)
            /\ pc' = "at_done"
            /\ gpc' = "done"
            /\ exc' = TRUE
    /\ UNCHANGED <<dropped, closed, outcome>>

\* the consumer's first next(): generate, lines 223-227, then gen_dicts starts reading
Start ==
    /\ pc = "unstarted"
    /\ \E id \in StreamIds :
          self' = [adapter |-> self.adapter,
                   _chat_completion_id |-> id,
                   _started_thinking |-> FALSE,
                   _thinking |-> FALSE,
                   _called_function |-> FALSE]
    /\ pc' = "running"
    /\ gpc' = "loop"
    /\ UNCHANGED <<res, exc, consumed, downstream, dropped, closed, outcome, normVars, msgVars, fwdVars, otherVars>>

\* sse_to_events yields ev to the for loop of gen_dicts
ReadEvent(ev) ==
    /\ pc = "running"
    /\ consumed' = Append(consumed, ev)
    /\ LET r == Translate(self, ev) IN
       IF r.raised THEN EnterFinally(r.self, TRUE)
       ELSE IF r.out = <<>>
            THEN /\ self' = r.self
                 /\ UNCHANGED <<pc, gpc, res, exc, downstream, dropped, closed, outcome>>
            ELSE /\ self' = r.self
                 /\ downstream' = Append(downstream, ChunkFrame(Head(r.out)))
                 /\ res' = Tail(r.out)
                 /\ pc' = "at_chunk"
                 /\ UNCHANGED <<gpc, exc, dropped, closed, outcome>>
    /\ UNCHANGED <<normVars, msgVars, fwdVars, otherVars>>

\* upstream_resp.iter_content is exhausted: the for loop of gen_dicts ends
UpstreamEnd ==
    /\ pc = "running"
    /\ EnterFinally(self, FALSE)
    /\ UNCHANGED <<consumed, normVars, msgVars, fwdVars, otherVars>>

\* upstream_resp.iter_content raises (the upstream connection dropped)
UpstreamError ==
    /\ pc = "running"
    /\ EnterFinally(self, TRUE)
    /\ UNCHANGED <<consumed, normVars, msgVars, fwdVars, otherVars>>

\* the consumer's next() while generate is suspended at chunks_to_sse line 254
Pull ==
    /\ pc = "at_chunk"
    /\ IF res # <<>>
       THEN \* gen_dicts line 246 yields the next chunk of res
            /\ downstream' = Append(downstream, ChunkFrame(Head(res)))
            /\ res' = Tail(res)
            /\ UNCHANGED <<pc, gpc>>
       ELSE IF gpc = "loop"
       THEN \* gen_dicts goes back to reading sse_to_events
            /\ pc' = "running"
            /\ UNCHANGED <<gpc, res, downstream>>
       ELSE \* gen_dicts ends behind the finally yield; chunks_to_sse line 259
            /\ downstream' = Append(downstream, DoneFrame)
            /\ pc' = "at_done"
            /\ gpc' = "done"
            /\ UNCHANGED res
    /\ UNCHANGED <<self, exc, consumed, dropped, closed, outcome, normVars, msgVars, fwdVars, otherVars>>

\* the consumer's next() while generate is suspended at chunks_to_sse line 259:
\* chunks_to_sse ends (re-raising what gen_dicts raised) and generate closes upstream
Finish ==
    /\ pc = "at_done"
    /\ GenerateFinally
    /\ pc' = "finished"
    /\ outcome' = IF exc THEN "raised" ELSE "returned"
    /\ UNCHANGED <<gpc, self, res, exc, consumed, downstream, dropped, normVars, msgVars, fwdVars, otherVars>>

\* the consumer closes generate() (the client went away).  Before the first next()
\* close() runs no code of the generator.  At line 254 GeneratorExit makes the finally
\* of chunks_to_sse yield [DONE] into close(), which raises RuntimeError; generate's
\* finally runs; gen_dicts, closed when its last reference goes, yields its finish
\* chunk into close() if it was still inside the for loop.  At line 259 GeneratorExit
\* leaves chunks_to_sse and generate's finally runs.
Cancel ==
    /\ pc \in {"unstarted", "at_chunk", "at_done"}
    /\ pc' = "finished"
    /\ IF pc = "unstarted"
       THEN /\ outcome' = "never_started"
            /\ UNCHANGED <<gpc, dropped, closed>>
       ELSE IF pc = "at_chunk"
       THEN /\ outcome' = "runtime_error"
            /\ GenerateFinally
            /\ gpc' = "done"
            /\ dropped' = dropped \o <<DoneFrame>> \o
                   (IF gpc = "loop" /\ AdapterHasInboundModel(self)
                    THEN <<ChunkFrame(FinishChunk(self))>> ELSE <<>>)
       ELSE /\ outcome' = "closed"
            /\ GenerateFinally
            /\ UNCHANGED <<gpc, dropped>>
    /\ UNCHANGED <<self, res, exc, consumed, downstream, normVars, msgVars, fwdVars, otherVars>>

(***************************************************************************)
(* Upstream events of the model.                                           *)
(***************************************************************************)
OutputItemAdded == <<"response.", "output_item", ".", "added">>
OutputItemAddedBare == <<"output_item", ".", "added">>
FunctionCallArgumentsDelta == <<"response.", "function_call_arguments", ".", "delta">>
OutputItemDone == <<"response.", "output_item", ".", "done">>
ReasoningSummaryTextDelta == <<"response.", "reasoning_summary_text", ".", "delta">>
ReasoningSummaryTextDone == <<"response.", "reasoning_summary_text", ".", "done">>
OutputTextDelta == <<"response.", "output_text", ".", "delta">>

\* the recognized event names, with and without the "response." prefix
RecognizedNames ==
    {OutputItemAdded, OutputItemAddedBare, FunctionCallArgumentsDelta, OutputItemDone,
     ReasoningSummaryTextDelta, ReasoningSummaryTextDone, OutputTextDelta,
     <<"function_call_arguments", ".", "delta">>, <<"output_item", ".", "done">>,
     <<"reasoning_summary_text", ".", "delta">>, <<"reasoning_summary_text", ".", "done">>,
     <<"output_text", ".", "delta">>}

\* names that are none of the recognized ones
UnrecognizedNames ==
    {<<"response.", "completed">>,
     <<"response.", "function_call", ".", "arguments", ".", "delta">>,
     <<"response.", "chat_completion_id">>,
     <<"create_chat_completion_id">>,
     <<"called_function">>,
     <<"_init__">>,
     <<"_delattr__">>}

Events ==
    {SSEEvent(OutputItemAdded, "json", JItem("reasoning")),
     SSEEvent(OutputItemAdded, "json", JFunctionCall("f", Absent, "call_1")),
     SSEEvent(OutputItemAdded, "json", JItemNull),
     SSEEvent(OutputItemAddedBare, "invalid", JNone),
     SSEEvent(FunctionCallArgumentsDelta, "json", JDelta("{")),
     SSEEvent(OutputItemDone, "json", JEmptyObj),
     SSEEvent(ReasoningSummaryTextDelta, "json", JDelta("A")),
     SSEEvent(ReasoningSummaryTextDone, "json", JEmptyObj),
     SSEEvent(OutputTextDelta, "json", JDelta("C")),
     SSEEvent(OutputTextDelta, "json", JEmptyObj),
     SSEEvent(OutputTextDelta, "invalid", JNone),
     SSEEvent(OutputTextDelta, "done", JNone),
     SSEEvent(<<>>, "done", JNone),
     SSEEvent(<<"response.", "completed">>, "json", JEmptyObj),
     SSEEvent(<<"response.", "chat_completion_id">>, "json", JEmptyObj),
     SSEEvent(<<"called_function">>, "json", JEmptyObj),
     SSEEvent(<<"_init__">>, "json", JEmptyObj),
     SSEEvent(<<"_delattr__">>, "json", JString("_called_function"))}

ThinkEvents ==
    {SSEEvent(OutputItemAdded, "json", JItem("reasoning")),
     SSEEvent(ReasoningSummaryTextDelta, "json", JDelta("A")),
     SSEEvent(ReasoningSummaryTextDelta, "json", JDelta("B")),
     SSEEvent(ReasoningSummaryTextDone, "json", JEmptyObj),
     SSEEvent(OutputTextDelta, "json", JDelta("C")),
     SSEEvent(OutputItemAdded, "json", JFunctionCall("f", "{}", "call_1"))}

NormInit ==
    /\ call_id_map = <<>>
    /\ calls = <<>>

\* what _messages_to_responses_input_and_instructions has returned: nothing yet
NotMapped == [done |-> FALSE, input_is_none |-> TRUE, input |-> <<>>, instructions |-> None]

MsgInit ==
    /\ messages = <<>>
    /\ input_items = <<>>
    /\ item_src = <<>>
    /\ instructions_parts = <<>>
    /\ mapped = NotMapped

\* a str as the sequence of its characters; AbsentStr is a key the dict does not have
AbsentStr == <<"<absent>">>

NoRequest == [method |-> None, body |-> [kind |-> "empty", model |-> AbsentStr, messages |-> <<>>]]
NoPayload == [parsed |-> FALSE, is_dict |-> FALSE, model |-> AbsentStr, messages |-> <<>>]
NoResponse == [kind |-> None, status |-> 0, mimetype |-> None, text |-> None]
NoKwargs == [returned |-> FALSE, method |-> None, stream |-> FALSE,
             json |-> [has_input |-> FALSE, input |-> <<>>, instructions |-> Absent,
                       stream |-> FALSE, effort |-> AbsentStr]]

FwdInit ==
    /\ fpc = "idle"
    /\ req = NoRequest
    /\ adapter = [inbound_model |-> <<"<None>">>, early_response |-> NoResponse]
    /\ payload = NoPayload
    /\ request_kwargs = NoKwargs
    /\ upstream = <<>>
    /\ translated = 0
    /\ fwd = [kind |-> "running", response |-> NoResponse, exception |-> None]

(***************************************************************************)
(* Server-sent events (app/common/sse.py).  A byte and a character are     *)
(* one-character strings and a text is a sequence of them; the character   *)
(* U+2028 is LS and its three UTF-8 bytes are E2, 80 and A8.               *)
(***************************************************************************)
LF == "\n"
CR == "\r"
LS == "U+2028"
ReplacementChar == "U+FFFD"
LSBytes == <<"E2", "80", "A8">>

\* None where a text is expected
NoneText == <<"<None>">>

StartsWith(s, p) == Len(s) >= Len(p) /\ SubSeq(s, 1, Len(p)) = p

EndsWith(s, p) == Len(s) >= Len(p) /\ SubSeq(s, Len(s) - Len(p) + 1, Len(s)) = p

\* s[n:]
Drop(s, n) == SubSeq(s, n + 1, Len(s))

\* bytes.find: the 1-based position of the first b in s, 0 when there is none
RECURSIVE find(_, _)
find(s, b) ==
    IF s = <<>> THEN 0
    ELSE IF Head(s) = b THEN 1
    ELSE LET i == find(Tail(s), b) IN IF i = 0 THEN 0 ELSE i + 1

RECURSIVE rstrip(_, _)
rstrip(s, cs) ==
    IF s # <<>> /\ s[Len(s)] \in cs THEN rstrip(SubSeq(s, 1, Len(s) - 1), cs) ELSE s

RECURSIVE lstrip(_, _)
lstrip(s, cs) == IF s # <<>> /\ Head(s) \in cs THEN lstrip(Tail(s), cs) ELSE s

\* what bytes.strip() removes
BytesWhitespace == {" ", "\t", "\n", "\r", "\f"}

\* what str.strip() removes
StrWhitespace == BytesWhitespace \cup {LS}

strip(s, cs) == rstrip(lstrip(s, cs), cs)

\* str.encode("utf-8")
RECURSIVE encode(_)
encode(s) ==
    IF s = <<>> THEN <<>>
    ELSE (IF Head(s) = LS THEN LSBytes ELSE <<Head(s)>>) \o encode(Tail(s))

\* bytes.decode("utf-8", errors="replace")
RECURSIVE decode(_)
decode(b) ==
    IF b = <<>> THEN <<>>
    ELSE IF StartsWith(b, LSBytes) THEN <<LS>> \o decode(Drop(b, 3))
    ELSE IF StartsWith(b, <<"E2", "80">>) THEN <<ReplacementChar>> \o decode(Drop(b, 2))
    ELSE IF Head(b) \in {"E2", "80", "A8"} THEN <<ReplacementChar>> \o decode(Tail(b))
    ELSE <<Head(b)>> \o decode(Tail(b))

\* sep.join(parts)
RECURSIVE join(_, _)
join(sep, parts) ==
    IF parts = <<>> THEN <<>>
    ELSE IF Len(parts) = 1 THEN parts[1]
    ELSE parts[1] \o sep \o join(sep, Tail(parts))

EventField == <<"e", "v", "e", "n", "t", ":">>
DataField == <<"d", "a", "t", "a", ":">>
IdField == <<"i", "d", ":">>
RetryField == <<"r", "e", "t", "r", "y", ":">>

DoneText == <<"[", "D", "O", "N", "E", "]">>

Digits == <<"0", "1", "2", "3", "4", "5", "6", "7", "8", "9">>

DigitValue(c) == (CHOOSE i \in DOMAIN Digits : Digits[i] = c) - 1

RECURSIVE Decimal(_)
Decimal(s) == IF s = <<>> THEN 0 ELSE 10 * Decimal(SubSeq(s, 1, Len(s) - 1)) + DigitValue(s[Len(s)])

\* try: int(val.strip()) except ValueError: None, for texts without sign or
\* underscore; <<n>> is the integer n and <<>> is None
int(val) ==
    LET t == strip(val, BytesWhitespace) IN
    IF t # <<>> /\ \A i \in DOMAIN t : \E j \in DOMAIN Digits : Digits[j] = t[i]
    THEN <<Decimal(t)>>
    ELSE <<>>

\* line.split(b":", 1)[1] of a line that holds a colon
AfterColon(line) == Drop(line, find(line, ":"))

\* if val.startswith(b" "): val = val[1:]
StripOneSpace(val) == IF val # <<>> /\ Head(val) = " " THEN Tail(val) ELSE val

\* SSEDecoder._parse_event: the body of the loop over the lines
ParseLine(acc, line) ==
    IF line = <<>> THEN acc
    ELSE IF StartsWith(line, EventField)
         THEN [acc EXCEPT !.event = decode(strip(AfterColon(line), BytesWhitespace))]
    ELSE IF StartsWith(line, DataField)
         THEN [acc EXCEPT !.data_parts = Append(@, StripOneSpace(Drop(line, 5)))]
    ELSE IF StartsWith(line, IdField)
         THEN [acc EXCEPT !.id = decode(StripOneSpace(AfterColon(line)))]
    ELSE IF StartsWith(line, RetryField)
         THEN [acc EXCEPT !.retry = int(StripOneSpace(AfterColon(line)))]
    ELSE acc

RECURSIVE ParseLines(_, _)
ParseLines(acc, lines) ==
    IF lines = <<>> THEN acc ELSE ParseLines(ParseLine(acc, Head(lines)), Tail(lines))

\* SSEDecoder._parse_event: the SSEEvent of the lines of one block
_parse_event(lines) ==
    LET acc == ParseLines([event |-> NoneText, data_parts |-> <<>>,
                           id |-> NoneText, retry |-> <<>>], lines)
    IN [event |-> acc.event,
        data |-> IF acc.data_parts # <<>> THEN decode(join(<<LF>>, acc.data_parts)) ELSE <<>>,
        id |-> acc.id,
        retry |-> acc.retry,
        index |-> 0]

\* SSEDecoder.__init__
SSEDecoderInit == [buffer |-> <<>>, full_buffer |-> <<>>, _event_lines |-> <<>>, _seq |-> 0]

Yielding(dec, evs) == [dec |-> dec, events |-> evs]

\* ev = self._parse_event(self._event_lines); self._seq += 1; ev.index = self._seq
NextEvent(dec) == [_parse_event(dec._event_lines) EXCEPT !.index = dec._seq + 1]

\* SSEDecoder.feed: the while loop, consumed to its end
RECURSIVE FeedLoop(_, _)
FeedLoop(dec, evs) ==
    LET idx == find(dec.buffer, LF) IN
    IF idx = 0 THEN Yielding(dec, evs)
    ELSE LET line == SubSeq(dec.buffer, 1, idx)
             rest == [dec EXCEPT !.buffer = Drop(dec.buffer, idx)]
             stripped == rstrip(line, {CR, LF})
         IN IF stripped = <<>>
            THEN IF dec._event_lines # <<>>
                 THEN FeedLoop([rest EXCEPT !._seq = @ + 1, !._event_lines = <<>>],
                               Append(evs, NextEvent(dec)))
                 ELSE FeedLoop([rest EXCEPT !._event_lines = <<>>], evs)
            ELSE FeedLoop([rest EXCEPT !._event_lines = Append(@, stripped)], evs)

\* mutant of feed: the buffer is replaced by the chunk
feed_forgetting_tail(dec, chunk) ==
    IF chunk = <<>> THEN Yielding(dec, <<>>)
    ELSE FeedLoop([dec EXCEPT !.buffer = chunk, !.full_buffer = @ \o chunk], <<>>)

\* SSEDecoder.feed
feed(dec, chunk) ==
    IF chunk = <<>> THEN Yielding(dec, <<>>)
    ELSE FeedLoop([dec EXCEPT !.buffer = @ \o chunk, !.full_buffer = @ \o chunk], <<>>)

\* mutant of end_of_input: the pending lines are kept
end_of_input_keeping_lines(dec) ==
    IF dec._event_lines # <<>>
    THEN Yielding([dec EXCEPT !._seq = @ + 1], <<NextEvent(dec)>>)
    ELSE Yielding(dec, <<>>)

\* SSEDecoder.end_of_input, consumed to its end
end_of_input(dec) ==
    IF dec._event_lines # <<>>
    THEN Yielding([dec EXCEPT !._seq = @ + 1, !._event_lines = <<>>], <<NextEvent(dec)>>)
    ELSE Yielding(dec, <<>>)

(***************************************************************************)
(* JSON texts of the objects {} and {"a": s}.                              *)
(***************************************************************************)
EmptyObject == [t |-> "dict", a |-> NoneText]
TextObject(s) == [t |-> "dict", a |-> s]
NoJson == [t |-> "None", a |-> NoneText]

Quote == "\""
Backslash == "\\"

\* what json.dumps(ensure_ascii=False) writes for one character of a string
EscapeChar(c) ==
    IF c = LF THEN <<Backslash, "n">>
    ELSE IF c = CR THEN <<Backslash, "r">>
    ELSE IF c = "\t" THEN <<Backslash, "t">>
    ELSE IF c = "\f" THEN <<Backslash, "f">>
    ELSE IF c \in {Quote, Backslash} THEN <<Backslash, c>>
    ELSE <<c>>

RECURSIVE Escape(_)
Escape(s) == IF s = <<>> THEN <<>> ELSE EscapeChar(Head(s)) \o Escape(Tail(s))

NullText == <<"n", "u", "l", "l">>
ObjectOpen == <<"{", Quote, "a", Quote, ":", Quote>>
ObjectClose == <<Quote, "}">>

\* json.dumps(obj, ensure_ascii=False, separators=(",", ":"))
dumps(obj) ==
    IF obj = NoJson THEN NullText
    ELSE IF obj.a = NoneText THEN <<"{", "}">> ELSE ObjectOpen \o Escape(obj.a) \o ObjectClose

Escaped == [n |-> LF, r |-> CR, t |-> "\t", f |-> "\f"]

\* the characters of a JSON string body; ok is false where json.loads raises
RECURSIVE Unescape(_)
Unescape(s) ==
    IF s = <<>> THEN [ok |-> TRUE, s |-> <<>>]
    ELSE IF Head(s) = Backslash
         THEN IF Len(s) < 2 THEN [ok |-> FALSE, s |-> <<>>]
              ELSE LET r == Unescape(Drop(s, 2)) IN
                   IF s[2] \in DOMAIN Escaped
                   THEN [ok |-> r.ok, s |-> <<Escaped[s[2]]>> \o r.s]
                   ELSE IF s[2] \in {Quote, Backslash}
                   THEN [ok |-> r.ok, s |-> <<s[2]>> \o r.s]
                   ELSE [ok |-> FALSE, s |-> <<>>]
    ELSE IF Head(s) \in {LF, CR, "\t", "\f", Quote} THEN [ok |-> FALSE, s |-> <<>>]
    ELSE LET r == Unescape(Tail(s)) IN [ok |-> r.ok, s |-> <<Head(s)>> \o r.s]

\* try: json.loads(text) except json.JSONDecodeError: None, for texts without
\* blanks between the tokens
loads(text) ==
    IF text = NullText THEN NoJson
    ELSE IF text = <<"{", "}">> THEN EmptyObject
    ELSE IF /\ StartsWith(text, ObjectOpen)
            /\ EndsWith(text, ObjectClose)
            /\ Len(text) >= Len(ObjectOpen) + Len(ObjectClose)
         THEN LET r == Unescape(SubSeq(text, Len(ObjectOpen) + 1, Len(text) - Len(ObjectClose)))
              IN IF r.ok THEN TextObject(r.s) ELSE NoJson
    ELSE NoJson

\* SSEEvent.is_done of a decoded event
IsDone(ev) == strip(ev.data, StrWhitespace) = DoneText

\* SSEEvent.json of a decoded event
EventJson(ev) ==
    LET text == strip(ev.data, StrWhitespace) IN
    IF IsDone(ev) \/ text = <<>> THEN NoJson ELSE loads(text)

\* str.splitlines() over the line boundaries \n, \r, \r\n and U+2028
RECURSIVE SplitLines(_, _)
SplitLines(s, line) ==
    IF s = <<>> THEN (IF line = <<>> THEN <<>> ELSE <<line>>)
    ELSE IF Head(s) = CR /\ Len(s) >= 2 /\ s[2] = LF THEN <<line>> \o SplitLines(Drop(s, 2), <<>>)
    ELSE IF Head(s) \in {LF, CR, LS} THEN <<line>> \o SplitLines(Tail(s), <<>>)
    ELSE SplitLines(Tail(s), Append(line, Head(s)))

splitlines(s) == SplitLines(s, <<>>)

\* for line in data.splitlines(): b"data: " + line + b"\n"
RECURSIVE DataLines(_)
DataLines(lines) ==
    IF lines = <<>> THEN <<>>
    ELSE DataField \o <<" ">> \o encode(Head(lines)) \o <<LF>> \o DataLines(Tail(lines))

\* encode_sse_data
encode_sse_data(data, event, id) ==
    (IF id # NoneText THEN IdField \o <<" ">> \o encode(id) \o <<LF>> ELSE <<>>)
    \o (IF event # NoneText THEN EventField \o <<" ">> \o encode(event) \o <<LF>> ELSE <<>>)
    \o (IF data = <<>> THEN DataField \o <<LF>> ELSE DataLines(splitlines(data)))
    \o <<LF>>

\* encode_sse_json without event and id, as chunks_to_sse calls it
encode_sse_json(obj) == encode_sse_data(dumps(obj), NoneText, NoneText)

\* done_event_bytes
done_event_bytes == encode_sse_data(DoneText, NoneText, NoneText)

SSEInit ==
    /\ spc = "idle"
    /\ wire = <<>>
    /\ decoder = SSEDecoderInit
    /\ events = <<>>
    /\ flushes = 0

EncInit ==
    /\ epc = "idle"
    /\ objs = <<>>
    /\ enc_buffer = <<>>
    /\ yielded = <<>>

(***************************************************************************)
(* Routing and authentication (app/blueprint.py, app/auth.py).             *)
(* request.authorization is what werkzeug makes of the Authorization       *)
(* header: None without a header, else its scheme in lower case and, for a *)
(* scheme other than basic followed by one word, that word as the token.   *)
(***************************************************************************)
SERVICE_API_KEY == "test-service-api-key"

NoAuthorization == [type |-> None, token |-> None]

Authorization(type, token) == [type |-> type, token |-> token]

Authorizations ==
    {NoAuthorization,
     Authorization("bearer", SERVICE_API_KEY),
     Authorization("bearer", "wrong"),
     Authorization("bearer", ""),
     Authorization("basic", None),
     Authorization("token", SERVICE_API_KEY)}

Paths == {"/health", "/models", "/v1/models", "/v1/chat/completions", "/"}

AuthMethods == {"GET", "POST"}

InboundRequests == [path : Paths, method : AuthMethods, authorization : Authorizations]

NoInbound == [path |-> None, method |-> None, authorization |-> NoAuthorization]

\* the view function the url map gives the request: the rules with a static path
\* and the request's method come before the catch-all rules
Endpoint(r) ==
    IF r.path = "/health" /\ r.method = "GET" THEN "health"
    ELSE IF r.path \in {"/models", "/v1/models"} /\ r.method = "GET" THEN "models"
    ELSE "catch_all"

\* mutant of valid_brearer_token: every request is let through
valid_brearer_token_always(r) == TRUE

\* valid_brearer_token
valid_brearer_token(r) ==
    /\ r.authorization # NoAuthorization
    /\ r.authorization.token = SERVICE_API_KEY

AuthInit ==
    /\ apc = "idle"
    /\ areq = NoInbound
    /\ aresp = 0
    /\ reached = "none"

(***************************************************************************)
(* Two requests handled at the same time.  A worker holds the AzureAdapter *)
(* and the ResponseAdapter it built for its request; class holds the       *)
(* attributes of the two classes, which an instance shows where it has no  *)
(* attribute of that name.                                                 *)
(***************************************************************************)
Workers == {1, 2}

ClassInit ==
    [azure |-> [inbound_model |-> None, early_response |-> None],
     response |-> [_chat_completion_id |-> None]]

\* attribute lookup on the instance obj of worker w: the instance first, then its class
View(st, w, obj) == st.workers[w][obj] @@ st.class[obj]

\* mutant of Assign: the assignment lands on the class
Assign_on_class(st, w, obj, name, value) ==
    [st EXCEPT !.class[obj] = setattr(@, name, value)]

\* self.<name> = value on the instance obj of worker w
Assign(st, w, obj, name, value) ==
    [st EXCEPT !.workers[w][obj] = setattr(@, name, value)]

RECURSIVE AssignAll(_, _, _, _, _)
AssignAll(st, w, obj, names, values) ==
    IF names = <<>> THEN st
    ELSE AssignAll(Assign(st, w, obj, Head(names), values[Head(names)]),
                   w, obj, Tail(names), values)

IdleWorker == [pc |-> "idle", method |-> None, model |-> None, id |-> None,
               azure |-> <<>>, response |-> <<>>, evs |-> <<>>, out |-> <<>>,
               status |-> 0]

WorkersInit ==
    store = [class |-> ClassInit, workers |-> [w \in Workers |-> IdleWorker]]

(***************************************************************************)
(* The optional parameters of the upstream body and the diagnostic.  An    *)
(* optional value is <<>> for None (dict.get of a key the dict does not    *)
(* have) and <<v>> for the value v; a string is the tuple of its           *)
(* characters.                                                             *)
(***************************************************************************)
UserChars == <<"u", "s", "e", "r", "-", "i", "d", "1", "2", "3">>

CacheChars == <<"c", "a", "c", "h", "e", "k", "e", "y", "0", "9">>

SystemChars == <<"Y", "o", "u", " ", "a", "r", "e", " ", "a", "n">>

\* cs[:n]
Take(cs, n) == SubSeq(cs, 1, IF n < Len(cs) THEN n ELSE Len(cs))

OptionalTokens == {<<>>} \cup {<<n>> : n \in 0..MaxTokens}

OptionalText(cs) == {<<>>} \cup {<<Take(cs, n)>> : n \in 0..MaxKeyLen}

ItemLists(x) == {[i \in 1..n |-> x] : n \in 0..MaxItems}

\* the inbound payloads: the optional keys of the body, and what the message
\* translation returned for its messages
InboundBodies ==
    [max_tokens : OptionalTokens,
     max_output_tokens : OptionalTokens,
     user : OptionalText(UserChars),
     prompt_cache_key : {<<>>, <<Take(CacheChars, 2)>>, <<Take(CacheChars, MaxKeyLen)>>},
     tools : ItemLists("tool"),
     mapped : [instructions : {<<>>, <<Take(SystemChars, 3)>>, <<SystemChars>>},
               input : ItemLists("item")]]

NoBody ==
    [max_tokens |-> <<>>, max_output_tokens |-> <<>>, user |-> <<>>,
     prompt_cache_key |-> <<>>, tools |-> <<>>,
     mapped |-> [instructions |-> <<>>, input |-> <<>>]]

\* x or y on optional integers: y when x is None or 0
OrTokens(x, y) == IF x # <<>> /\ x[1] # 0 THEN x ELSE y

\* x or y on optional strings: y when x is None or ""
OrText(x, y) == IF x # <<>> /\ x[1] # <<>> THEN x ELSE y

\* RequestAdapter.adapt: the keys of responses_body that depend on the payload;
\* <<>> for a key that is not set
ResponsesBody(b) ==
    LET tools_in == b.tools
        max_tokens == OrTokens(b.max_tokens, b.max_output_tokens)
        prompt_cache_key == OrText(b.user, b.prompt_cache_key)
    IN [instructions |-> IF b.mapped.instructions # <<>> /\ b.mapped.instructions[1] # <<>>
                         THEN b.mapped.instructions ELSE <<>>,
        input |-> <<b.mapped.input>>,
        tools |-> IF tools_in # <<>> THEN <<tools_in>> ELSE <<>>,
        max_output_tokens |-> max_tokens,
        prompt_cache_key |-> prompt_cache_key]

Ellipsis == <<".", ".", ".">>

Stars == <<"*", "*", "*">>

\* f"...redacted {len(x)} tools..." and f"...redacted {len(x)} input items..."
Redacted(x, what) == [redacted |-> Len(x), what |-> what]

\* re.sub(r"(...)(.*)(...)", "\\1***\\3", key) on a key of one line: the pattern
\* needs six characters to match
MaskKey(key) ==
    IF Len(key) >= 6
    THEN Take(key, 3) \o Stars \o SubSeq(key, Len(key) - 2, Len(key))
    ELSE key

\* AzureAdapter._handle_azure_error: the request body of the report
RedactBody(body) ==
    [instructions |-> IF body.instructions # <<>>
                      THEN <<Take(body.instructions[1], 7) \o Ellipsis>> ELSE <<>>,
     tools |-> IF body.tools # <<>> THEN <<Redacted(body.tools[1], "tools")>> ELSE <<>>,
     input |-> IF body.input # <<>> THEN <<Redacted(body.input[1], "input items")>> ELSE <<>>,
     max_output_tokens |-> body.max_output_tokens,
     prompt_cache_key |-> IF body.prompt_cache_key # <<>>
                          THEN <<MaskKey(body.prompt_cache_key[1])>> ELSE <<>>]

NoResponsesBody ==
    [instructions |-> <<>>, input |-> <<>>, tools |-> <<>>,
     max_output_tokens |-> <<>>, prompt_cache_key |-> <<>>]

NoReport == [status |-> 0, request_body |-> <<>>]

DiagInit ==
    /\ dpc = "idle"
    /\ inbound = NoBody
    /\ responses_body = NoResponsesBody
    /\ report = NoReport

Init ==
    /\ StreamInit /\ NormInit /\ MsgInit /\ FwdInit /\ SSEInit /\ EncInit
    /\ AuthInit /\ WorkersInit /\ DiagInit

Read == \E ev \in Events : Len(consumed) < MaxEvents /\ ReadEvent(ev)

ReadThink == \E ev \in ThinkEvents : Len(consumed) < MaxThinkEvents /\ ReadEvent(ev)

Next ==
    \/ Start
    \/ Read
    \/ UpstreamEnd
    \/ UpstreamError
    \/ Pull
    \/ Finish
    \/ Cancel

Spec == Init /\ [][Next]_vars

NextThink ==
    \/ Start
    \/ ReadThink
    \/ UpstreamEnd
    \/ UpstreamError
    \/ Pull
    \/ Finish
    \/ Cancel

SpecThink == Init /\ [][NextThink]_vars

(***************************************************************************)
(* Call ids.  A str is the sequence of its characters; NoneStr is None     *)
(* where a str is expected.                                                *)
(***************************************************************************)
NoneStr == <<"<None>">>

Repeat(c, n) == [i \in 1..n |-> c]

CallPrefix == <<"c", "a", "l", "l", "_">>

\* ids of 6, 64, 65 and 80 characters
ShortId == CallPrefix \o <<"1">>
Id64 == CallPrefix \o Repeat("w", 59)
Id65 == CallPrefix \o Repeat("x", 60)
Id80 == CallPrefix \o Repeat("y", 75)

\* hashlib.sha256(Id65).hexdigest()
DigestOfId65 ==
    <<"b", "8", "8", "2", "3", "c", "9", "1", "0", "8", "1", "5", "4", "4", "c", "a",
      "c", "3", "0", "c", "5", "6", "e", "1", "c", "4", "9", "7", "1", "5", "0", "5",
      "2", "c", "5", "1", "8", "4", "8", "5", "b", "e", "2", "5", "8", "8", "4", "a",
      "5", "3", "4", "6", "7", "9", "b", "b", "e", "3", "4", "f", "3", "e", "6", "3">>

\* hashlib.sha256(Id80).hexdigest()
DigestOfId80 ==
    <<"c", "3", "3", "2", "c", "6", "c", "6", "c", "1", "9", "f", "c", "c", "5", "f",
      "1", "a", "1", "7", "9", "c", "2", "e", "c", "3", "0", "d", "0", "2", "a", "6",
      "f", "7", "b", "a", "8", "4", "4", "3", "1", "9", "a", "5", "7", "1", "c", "3",
      "7", "2", "1", "7", "f", "1", "e", "6", "9", "8", "8", "f", "4", "1", "9", "8">>

\* the ids a request of the model carries; an id may be the digest of another
CallIds == {NoneStr, <<>>, ShortId, Id64, Id65, Id80, DigestOfId80}

\* hashlib.sha256(original.encode("utf-8")).hexdigest(), on the long ids of the model
Sha256Hex(original) ==
    CASE original = Id65 -> DigestOfId65
      [] original = Id80 -> DigestOfId80

MaxCallIdLen == 64

\* mutant of _normalize_call_id: the digest is stored but the original is returned
_normalize_call_id_returning_original(original, mapping) ==
    IF original = NoneStr \/ original = <<>>
    THEN [ret |-> original, mapping |-> mapping]
    ELSE IF Len(original) <= MaxCallIdLen
    THEN [ret |-> IF original \in DOMAIN mapping THEN mapping[original] ELSE original,
          mapping |-> mapping]
    ELSE IF original \in DOMAIN mapping
    THEN [ret |-> mapping[original], mapping |-> mapping]
    ELSE [ret |-> original, mapping |-> (original :> Sha256Hex(original)) @@ mapping]

\* mutant of _normalize_call_id: a long id is cut to 64 characters instead of hashed
_normalize_call_id_truncating(original, mapping) ==
    IF original = NoneStr \/ original = <<>>
    THEN [ret |-> original, mapping |-> mapping]
    ELSE IF Len(original) <= MaxCallIdLen
    THEN [ret |-> IF original \in DOMAIN mapping THEN mapping[original] ELSE original,
          mapping |-> mapping]
    ELSE IF original \in DOMAIN mapping
    THEN [ret |-> mapping[original], mapping |-> mapping]
    ELSE LET norm == SubSeq(original, 1, MaxCallIdLen) IN
         [ret |-> norm, mapping |-> (original :> norm) @@ mapping]

\* RequestAdapter._normalize_call_id: the value returned and the mapping afterwards
_normalize_call_id(original, mapping) ==
    IF original = NoneStr \/ original = <<>>
    THEN [ret |-> original, mapping |-> mapping]
    ELSE IF Len(original) <= MaxCallIdLen
    THEN [ret |-> IF original \in DOMAIN mapping THEN mapping[original] ELSE original,
          mapping |-> mapping]
    ELSE IF original \in DOMAIN mapping
    THEN [ret |-> mapping[original], mapping |-> mapping]
    ELSE LET norm == Sha256Hex(original) IN
         [ret |-> norm, mapping |-> (original :> norm) @@ mapping]

\* _messages_to_responses_input_and_instructions, line 96: call_id_map = {}
NewTranslation ==
    /\ calls # <<>>
    /\ call_id_map' = <<>>
    /\ calls' = <<>>
    /\ UNCHANGED <<streamVars, msgVars, fwdVars, otherVars>>

\* _messages_to_responses_input_and_instructions, lines 110 and 135:
\* self._normalize_call_id(original, call_id_map)
NormalizeCall(original) ==
    /\ Len(calls) < MaxCalls
    /\ LET r == _normalize_call_id(original, call_id_map) IN
       /\ call_id_map' = r.mapping
       /\ calls' = Append(calls, [original |-> original, ret |-> r.ret,
                                  before |-> call_id_map, after |-> r.mapping])
    /\ UNCHANGED <<streamVars, msgVars, fwdVars, otherVars>>

Normalize == \E original \in CallIds : NormalizeCall(original)

NextNorm ==
    \/ NewTranslation
    \/ Normalize

SpecNorm == Init /\ [][NextNorm]_vars

(***************************************************************************)
(* Message translation                                                     *)
(* (RequestAdapter._messages_to_responses_input_and_instructions).         *)
(* A message is a dict: role and content as m.get returns them (None for a *)
(* missing key), tool_call_id as a call id, tool_calls as the list of its  *)
(* entries (empty for a missing key).                                      *)
(***************************************************************************)
CNone == [kind |-> "none", text |-> "", parts |-> <<>>]
CStr(text) == [kind |-> "str", text |-> text, parts |-> <<>>]
CList(parts) == [kind |-> "list", text |-> "", parts |-> parts]

\* the parts of a list content: a dict with type text/input_text and a text key,
\* a dict with a str content key, any other dict, and a non-dict (text is str(it))
TypedPart(text) == [kind |-> "typed_text", text |-> text]
ContentPart(text) == [kind |-> "content_str", text |-> text]
OtherDictPart == [kind |-> "dict_other", text |-> ""]
ScalarPart(text) == [kind |-> "scalar", text |-> text]

RECURSIVE JoinWith(_, _)
JoinWith(sep, texts) ==
    IF texts = <<>> THEN ""
    ELSE IF Len(texts) = 1 THEN texts[1]
    ELSE texts[1] \o sep \o JoinWith(sep, Tail(texts))

\* parts.append(...) for each part that appends something
RECURSIVE PartTexts(_)
PartTexts(parts) ==
    IF parts = <<>> THEN <<>>
    ELSE IF parts[1].kind = "dict_other" THEN PartTexts(Tail(parts))
    ELSE <<parts[1].text>> \o PartTexts(Tail(parts))

NonEmpty(text) == text # ""

content_to_text(c) ==
    CASE c.kind = "none" -> ""
      [] c.kind = "str" -> c.text
      [] c.kind = "list" -> JoinWith("\n", SelectSeq(PartTexts(c.parts), NonEmpty))

Message(role, content, tool_call_id, tool_calls) ==
    [role |-> role, content |-> content, tool_call_id |-> tool_call_id,
     tool_calls |-> tool_calls]

\* a tool_calls entry: id, function.name, function.arguments
ToolCallEntry(id, name, arguments) == [id |-> id, name |-> name, arguments |-> arguments]

Item(type, role, content_type, text, name, arguments, call_id, output, status) ==
    [type |-> type, role |-> role, content_type |-> content_type, text |-> text,
     name |-> name, arguments |-> arguments, call_id |-> call_id, output |-> output,
     status |-> status]

\* mutant of ToolMessageItem: the tool output keeps the original tool_call_id
ToolMessageItem_with_original_id(m, norm_call_id) ==
    Item("function_call_output", Absent, Absent, Absent, Absent, Absent,
         m.tool_call_id, content_to_text(m.content), "completed")

ToolMessageItem(m, norm_call_id) ==
    Item("function_call_output", Absent, Absent, Absent, Absent, Absent,
         norm_call_id, content_to_text(m.content), "completed")

MessageItem(m) ==
    Item(Absent,
         IF m.role = None \/ m.role = "" THEN "user" ELSE m.role,
         IF m.role = "user" THEN "input_text" ELSE "output_text",
         content_to_text(m.content), Absent, Absent, AbsentStr, Absent, Absent)

FunctionCallItem(tool_call, norm_call_id) ==
    Item("function_call", Absent, Absent, Absent, tool_call.name, tool_call.arguments,
         norm_call_id, Absent, Absent)

\* mutant of AppendItem: the item is put in front of the list
AppendItem_in_front(items, item) == <<item>> \o items

\* input_items.append(item)
AppendItem(items, item) == Append(items, item)

\* the locals of the translation: input_items, instructions_parts, call_id_map,
\* with item_src kept beside them
LoopState(items, src, parts, mapping) ==
    [input_items |-> items, item_src |-> src, instructions_parts |-> parts,
     call_id_map |-> mapping]

\* for tool_call in tool_calls: ... input_items.append(item), from entry k on
RECURSIVE ToolCallsLoop(_, _, _, _)
ToolCallsLoop(st, tool_calls, i, k) ==
    IF k > Len(tool_calls) THEN st
    ELSE LET original_id == tool_calls[k].id
             r == _normalize_call_id(original_id, st.call_id_map)
         IN  ToolCallsLoop(
                 LoopState(AppendItem(st.input_items, FunctionCallItem(tool_calls[k], r.ret)),
                           Append(st.item_src, [msg |-> i, call |-> k]),
                           st.instructions_parts,
                           r.mapping),
                 tool_calls, i, k + 1)

\* one iteration of for m in messages, m being message number i
MessageLoopBody(st, m, i) ==
    IF m.role \in {"system", "developer"}
    THEN LET text == content_to_text(m.content) IN
         LoopState(st.input_items, st.item_src,
                   IF text # "" THEN Append(st.instructions_parts, text)
                                ELSE st.instructions_parts,
                   st.call_id_map)
    ELSE IF m.role = "tool"
    THEN LET r == _normalize_call_id(m.tool_call_id, st.call_id_map) IN
         LoopState(AppendItem(st.input_items, ToolMessageItem(m, r.ret)),
                   Append(st.item_src, [msg |-> i, call |-> 0]),
                   st.instructions_parts,
                   r.mapping)
    ELSE ToolCallsLoop(
             LoopState(AppendItem(st.input_items, MessageItem(m)),
                       Append(st.item_src, [msg |-> i, call |-> 0]),
                       st.instructions_parts, st.call_id_map),
             m.tool_calls, i, 1)

\* the return statement
MappedOf(st) ==
    [done |-> TRUE,
     input_is_none |-> st.input_items = <<>>,
     input |-> st.input_items,
     instructions |-> IF st.instructions_parts # <<>>
                      THEN JoinWith("\n\n", st.instructions_parts) ELSE None]

RECURSIVE MessagesLoop(_, _, _)
MessagesLoop(st, msgs, i) ==
    IF i > Len(msgs) THEN st ELSE MessagesLoop(MessageLoopBody(st, msgs[i], i), msgs, i + 1)

_messages_to_responses_input_and_instructions(msgs) ==
    MappedOf(MessagesLoop(LoopState(<<>>, <<>>, <<>>, <<>>), msgs, 1))

\* the messages of the model
ToolCallIds == {ShortId, Id80}

ToolCallLists ==
    UNION {[1..n -> {ToolCallEntry(id, "f", "{}") : id \in ToolCallIds}] : n \in 0..MaxToolCalls}

Messages ==
    {Message("system", CStr("Be terse"), AbsentStr, <<>>),
     Message("developer", CStr(""), AbsentStr, <<>>),
     Message("user", CList(<<TypedPart("a"), OtherDictPart, ScalarPart(""), ContentPart("b")>>),
             AbsentStr, <<>>),
     Message(None, CStr("x"), AbsentStr, <<>>)}
    \cup {Message("tool", CStr("out"), id, <<>>) : id \in ToolCallIds}
    \cup {Message("assistant", CNone, AbsentStr, tcs) : tcs \in ToolCallLists}

\* for m in messages: one iteration
TranslateMessage(m) ==
    /\ ~mapped.done
    /\ Len(messages) < MaxMessages
    /\ LET st == MessageLoopBody(
                     LoopState(input_items, item_src, instructions_parts, call_id_map),
                     m, Len(messages) + 1)
       IN  /\ messages' = Append(messages, m)
           /\ input_items' = st.input_items
           /\ item_src' = st.item_src
           /\ instructions_parts' = st.instructions_parts
           /\ call_id_map' = st.call_id_map
    /\ UNCHANGED <<mapped, calls, streamVars, fwdVars, otherVars>>

TranslateNext == \E m \in Messages : TranslateMessage(m)

\* the end of the list: the return statement
TranslateReturn ==
    /\ ~mapped.done
    /\ mapped' = MappedOf(LoopState(input_items, item_src, instructions_parts,
                                    call_id_map))
    /\ UNCHANGED <<messages, input_items, item_src, instructions_parts, normVars,
                   streamVars, fwdVars, otherVars>>

NextMsgs ==
    \/ TranslateNext
    \/ TranslateReturn

SpecMsgs == Init /\ [][NextMsgs]_vars

(***************************************************************************)
(* AzureAdapter.forward and RequestAdapter.adapt.                          *)
(***************************************************************************)
GptDash == <<"g", "p", "t", "-">>
High == <<"h", "i", "g", "h">>
Medium == <<"m", "e", "d", "i", "u", "m">>
Low == <<"l", "o", "w">>

\* the set literal of line 264
Efforts == {High, Medium, Low}

UpperLetters ==
    <<"A", "B", "C", "D", "E", "F", "G", "H", "I", "J", "K", "L", "M",
      "N", "O", "P", "Q", "R", "S", "T", "U", "V", "W", "X", "Y", "Z">>

LowerLetters ==
    <<"a", "b", "c", "d", "e", "f", "g", "h", "i", "j", "k", "l", "m",
      "n", "o", "p", "q", "r", "s", "t", "u", "v", "w", "x", "y", "z">>

\* str.lower()
lower(s) ==
    [i \in 1..Len(s) |->
        IF \E n \in DOMAIN UpperLetters : UpperLetters[n] = s[i]
        THEN LowerLetters[CHOOSE n \in DOMAIN UpperLetters : UpperLetters[n] = s[i]]
        ELSE s[i]]

\* str.replace(old, new) for a non-empty old: every occurrence, from the left
RECURSIVE replace(_, _, _)
replace(s, old, new) ==
    IF Len(s) < Len(old) THEN s
    ELSE IF SubSeq(s, 1, Len(old)) = old
    THEN new \o replace(SubSeq(s, Len(old) + 1, Len(s)), old, new)
    ELSE <<s[1]>> \o replace(Tail(s), old, new)

\* the model fields of the inbound bodies; AbsentStr is a body without the key
Models ==
    {GptDash \o High, GptDash \o Medium, GptDash \o Low,
     <<"g", "p", "t", "5">>,
     GptDash \o <<"u", "l", "t", "r", "a">>,
     High,
     GptDash \o <<"H", "I", "G", "H">>,
     <<"G", "P", "T", "-">> \o High,
     GptDash \o GptDash \o Low,
     <<"h", "i">> \o GptDash \o <<"g", "h">>,
     <<>>,
     AbsentStr}

\* methods the catch_all route lets through, as werkzeug hands them over (upper case)
Methods == {"GET", "POST", "PUT", "DELETE"}

EndToEndMessages ==
    <<Message("system", CStr("Be terse"), AbsentStr, <<>>),
      Message("user", CStr("Hi"), AbsentStr, <<>>)>>

MessageLists == {<<>>, EndToEndMessages}

\* request bodies: no bytes, bytes that are not JSON, JSON that is not an object,
\* and a JSON object
Body(kind, model, msgs) == [kind |-> kind, model |-> model, messages |-> msgs]

Bodies ==
    {Body(kind, AbsentStr, <<>>) : kind \in {"empty", "invalid", "array"}}
    \cup {Body("object", model, msgs) : model \in Models, msgs \in MessageLists}

Requests == {[method |-> method, body |-> body] : method \in Methods, body \in Bodies}

\* upstream answers: status code and whether the body is JSON
Statuses == {200, 201, 400, 429, 500}

UpstreamResponses ==
    {[raised |-> FALSE, status |-> status, body |-> body] :
        status \in Statuses, body \in {"json", "text"}}

Response(kind, status, mimetype, text) ==
    [kind |-> kind, status |-> status, mimetype |-> mimetype, text |-> text]

Returning(response) == [kind |-> "returned", response |-> response, exception |-> None]
Raising(exception) == [kind |-> "raised", response |-> NoResponse, exception |-> exception]

\* what _parse_json_body returns: None, or the parsed value
_parse_json_body(body) ==
    CASE body.kind = "empty" -> [is_none |-> TRUE, is_dict |-> FALSE, value |-> body]
      [] body.kind = "invalid" -> [is_none |-> TRUE, is_dict |-> FALSE, value |-> body]
      [] body.kind = "array" -> [is_none |-> FALSE, is_dict |-> FALSE, value |-> body]
      [] body.kind = "object" -> [is_none |-> FALSE, is_dict |-> TRUE, value |-> body]

\* mutant of PayloadOrEmpty: a payload that is not a dict is kept
PayloadOrEmpty_keeping(parsed) ==
    [parsed |-> TRUE, is_dict |-> parsed.is_dict,
     model |-> parsed.value.model, messages |-> parsed.value.messages]

\* if not isinstance(payload, dict): payload = {}
PayloadOrEmpty(parsed) ==
    IF parsed.is_dict
    THEN [parsed |-> TRUE, is_dict |-> TRUE,
          model |-> parsed.value.model, messages |-> parsed.value.messages]
    ELSE [parsed |-> TRUE, is_dict |-> TRUE, model |-> AbsentStr, messages |-> <<>>]

\* payload.get("model")
PayloadModel(p) == IF p.model = AbsentStr THEN NoneStr ELSE p.model

\* mutant of MethodAllowed: every method is let through
MethodAllowed_always(method) == TRUE

\* (req.method or "").upper() == "POST"
MethodAllowed(method) == method = "POST"

EarlyResponse == Response("early", 405, "text/plain", "Only POST supported for Azure backend")

\* inbound_model.replace("gpt-", "").lower()
reasoning_effort(inbound_model) == lower(replace(inbound_model, GptDash, <<>>))

\* mutant of EffortSupported: no effort is refused
EffortSupported_always(effort) == TRUE

\* reasoning_effort in {"high", "medium", "low"}
EffortSupported(effort) == effort \in Efforts

\* forward(req) is called: adapt resets the per-request state
Forward(r) ==
    /\ fpc = "idle"
    /\ req' = r
    /\ adapter' = [inbound_model |-> NoneStr, early_response |-> NoResponse]
    /\ fpc' = "method"
    /\ UNCHANGED <<payload, request_kwargs, upstream, translated, fwd>>
    /\ UNCHANGED <<streamVars, normVars, msgVars, otherVars>>

Receive == \E r \in Requests : Forward(r)

\* adapt, lines 199-206
AdaptMethod ==
    /\ fpc = "method"
    /\ IF MethodAllowed(req.method)
       THEN /\ fpc' = "parse"
            /\ UNCHANGED adapter
       ELSE /\ adapter' = [adapter EXCEPT !.early_response = EarlyResponse]
            /\ fpc' = "adapted"
    /\ UNCHANGED <<req, payload, request_kwargs, upstream, translated, fwd>>
    /\ UNCHANGED <<streamVars, normVars, msgVars, otherVars>>

\* adapt, lines 208-216
AdaptParse ==
    /\ fpc = "parse"
    /\ payload' = PayloadOrEmpty(_parse_json_body(req.body))
    /\ adapter' = [adapter EXCEPT !.inbound_model =
                       IF payload'.is_dict THEN PayloadModel(payload') ELSE NoneStr]
    /\ fpc' = "map"
    /\ UNCHANGED <<req, request_kwargs, upstream, translated, fwd>>
    /\ UNCHANGED <<streamVars, normVars, msgVars, otherVars>>

\* adapt, lines 218-261: the body up to stream = True; payload.get on a value
\* that is not a dict raises AttributeError
AdaptBody ==
    /\ fpc = "map"
    /\ IF ~payload.is_dict
       THEN /\ fwd' = Raising("AttributeError")
            /\ fpc' = "done"
            /\ UNCHANGED request_kwargs
       ELSE LET m == _messages_to_responses_input_and_instructions(payload.messages) IN
            /\ request_kwargs' =
                   [request_kwargs EXCEPT
                        !.json = [has_input |-> ~m.input_is_none,
                                  input |-> m.input,
                                  instructions |-> IF m.instructions \in {None, ""}
                                                   THEN Absent ELSE m.instructions,
                                  stream |-> TRUE,
                                  effort |-> AbsentStr]]
            /\ fpc' = "effort"
            /\ UNCHANGED fwd
    /\ UNCHANGED <<req, adapter, payload, upstream, translated>>
    /\ UNCHANGED <<streamVars, normVars, msgVars, otherVars>>

\* adapt, lines 263-287
AdaptEffort ==
    /\ fpc = "effort"
    /\ IF adapter.inbound_model = NoneStr
       THEN /\ fwd' = Raising("AttributeError")
            /\ fpc' = "done"
            /\ UNCHANGED request_kwargs
       ELSE IF ~EffortSupported(reasoning_effort(adapter.inbound_model))
       THEN /\ fwd' = Raising("ValueError")
            /\ fpc' = "done"
            /\ UNCHANGED request_kwargs
       ELSE /\ request_kwargs' =
                   [request_kwargs EXCEPT
                        !.returned = TRUE, !.method = "POST", !.stream = TRUE,
                        !.json.effort = reasoning_effort(adapter.inbound_model)]
            /\ fpc' = "adapted"
            /\ UNCHANGED fwd
    /\ UNCHANGED <<req, adapter, payload, upstream, translated>>
    /\ UNCHANGED <<streamVars, normVars, msgVars, otherVars>>

\* forward, lines 52-53
ForwardEarly ==
    /\ fpc = "adapted"
    /\ adapter.early_response # NoResponse
    /\ fwd' = Returning(adapter.early_response)
    /\ fpc' = "done"
    /\ UNCHANGED <<req, adapter, payload, request_kwargs, upstream, translated>>
    /\ UNCHANGED <<streamVars, normVars, msgVars, otherVars>>

\* forward, line 58: requests.request(**request_kwargs) returns a response
UpstreamCall(resp) ==
    /\ fpc = "adapted"
    /\ adapter.early_response = NoResponse
    /\ upstream' = Append(upstream, resp)
    /\ fpc' = "responded"
    /\ UNCHANGED <<req, adapter, payload, request_kwargs, translated, fwd>>
    /\ UNCHANGED <<streamVars, normVars, msgVars, otherVars>>

UpstreamAnswer == \E resp \in UpstreamResponses : UpstreamCall(resp)

\* forward, line 58: requests.request raises (no connection, connect timeout)
UpstreamRaise ==
    /\ fpc = "adapted"
    /\ adapter.early_response = NoResponse
    /\ upstream' = Append(upstream, [raised |-> TRUE, status |-> 0, body |-> "text"])
    /\ fwd' = Raising("RequestException")
    /\ fpc' = "done"
    /\ UNCHANGED <<req, adapter, payload, request_kwargs, translated>>
    /\ UNCHANGED <<streamVars, normVars, msgVars, otherVars>>

\* mutant of ForwardError: the upstream call is made again after a failure
ForwardError_retrying ==
    /\ fpc = "responded"
    /\ upstream[Len(upstream)].status # 200
    /\ fpc' = "adapted"
    /\ UNCHANGED <<req, adapter, payload, request_kwargs, upstream, translated, fwd>>
    /\ UNCHANGED <<streamVars, normVars, msgVars, otherVars>>

\* forward, lines 59-60, and _handle_azure_error: json.dumps(report) raises
\* TypeError when azure_response is resp.content (bytes)
ForwardError ==
    /\ fpc = "responded"
    /\ LET resp == upstream[Len(upstream)] IN
       /\ resp.status # 200
       /\ fwd' = IF resp.body = "json"
                 THEN Returning(Response("diagnostic", resp.status, Absent, "error_message"))
                 ELSE Raising("TypeError")
    /\ fpc' = "done"
    /\ UNCHANGED <<req, adapter, payload, request_kwargs, upstream, translated>>
    /\ UNCHANGED <<streamVars, normVars, msgVars, otherVars>>

\* forward, line 62: return self.response_adapter.adapt(resp)
ForwardStream ==
    /\ fpc = "responded"
    /\ upstream[Len(upstream)].status = 200
    /\ translated' = translated + 1
    /\ fwd' = Returning(Response("stream", 200, "text/event-stream", Absent))
    /\ fpc' = "done"
    /\ UNCHANGED <<req, adapter, payload, request_kwargs, upstream>>
    /\ UNCHANGED <<streamVars, normVars, msgVars, otherVars>>

NextForward ==
    \/ Receive
    \/ AdaptMethod
    \/ AdaptParse
    \/ AdaptBody
    \/ AdaptEffort
    \/ ForwardEarly
    \/ UpstreamAnswer
    \/ UpstreamRaise
    \/ ForwardError
    \/ ForwardStream

SpecForward == Init /\ [][NextForward]_vars

(***************************************************************************)
(* sse_to_events over one upstream byte stream, one chunk per step.        *)
(***************************************************************************)
RECURSIVE Concat(_)
Concat(parts) == IF parts = <<>> THEN <<>> ELSE Head(parts) \o Concat(Tail(parts))

\* the lines an upstream stream is made of; the last one is a line still to be ended
Pieces ==
    {DataField \o <<" ", "x", LF>>,
     DataField \o <<" ", "x", CR, LF>>,
     EventField \o <<" ", "e", LF>> \o IdField \o <<" ", "7", LF>>
         \o RetryField \o <<" ", "1", "0", LF>>,
     <<":", " ", "c", LF>>,
     <<LF>>,
     <<CR, LF>>,
     DataField \o <<"y">>}

PieceLists == UNION {[1..n -> Pieces] : n \in 0..MaxPieces}

Streams == {Concat(ps) : ps \in PieceLists}

\* sse_to_events: decoder = SSEDecoder(encoding=encoding)
Open(stream) ==
    /\ spc = "idle"
    /\ spc' = "feeding"
    /\ wire' = stream
    /\ decoder' = SSEDecoderInit
    /\ UNCHANGED <<events, flushes>>
    /\ UNCHANGED <<streamVars, normVars, msgVars, fwdVars, encVars, authVars, store, diagVars>>

\* sse_to_events: for chunk in stream: yield from decoder.feed(chunk); the chunk is
\* the next n bytes of the stream
FeedChunk(n) ==
    /\ spc = "feeding"
    /\ flushes = 0
    /\ n <= Len(wire)
    /\ LET r == feed(decoder, SubSeq(wire, 1, n)) IN
       /\ decoder' = r.dec
       /\ events' = events \o r.events
    /\ wire' = Drop(wire, n)
    /\ UNCHANGED <<spc, flushes>>
    /\ UNCHANGED <<streamVars, normVars, msgVars, fwdVars, encVars, authVars, store, diagVars>>

\* sse_to_events: yield from decoder.end_of_input(), and end_of_input() called again
\* on the same decoder
EndOfInput ==
    /\ spc = "feeding"
    /\ wire = <<>>
    /\ flushes < MaxFlushes
    /\ LET r == end_of_input(decoder) IN
       /\ decoder' = r.dec
       /\ events' = events \o r.events
    /\ flushes' = flushes + 1
    /\ UNCHANGED <<spc, wire>>
    /\ UNCHANGED <<streamVars, normVars, msgVars, fwdVars, encVars, authVars, store, diagVars>>

NextSSE ==
    \/ \E stream \in Streams : Open(stream)
    \/ \E n \in 0..MaxChunk : FeedChunk(n)
    \/ EndOfInput

SpecSSE == Init /\ [][NextSSE]_vars

(***************************************************************************)
(* chunks_to_sse over one list of chunks, one frame per step.              *)
(***************************************************************************)
Objects ==
    {EmptyObject,
     TextObject(<<>>),
     TextObject(<<"x">>),
     TextObject(<<"x", LF, "y">>),
     TextObject(<<"x", LS, "y">>),
     TextObject(DoneText)}

ObjectLists == UNION {[1..n -> Objects] : n \in 0..MaxObjects}

\* chunks_to_sse: buffer = b""
Encode(chunks) ==
    /\ epc = "idle"
    /\ epc' = "loop"
    /\ objs' = chunks
    /\ enc_buffer' = <<>>
    /\ UNCHANGED yielded
    /\ UNCHANGED <<streamVars, normVars, msgVars, fwdVars, sseVars, authVars, store, diagVars>>

\* chunks_to_sse: sse = encode_sse_json(obj); buffer += sse; yield sse
EncodeNext ==
    /\ epc = "loop"
    /\ Len(yielded) < Len(objs)
    /\ LET sse == encode_sse_json(objs[Len(yielded) + 1]) IN
       /\ enc_buffer' = enc_buffer \o sse
       /\ yielded' = Append(yielded, sse)
    /\ UNCHANGED <<epc, objs>>
    /\ UNCHANGED <<streamVars, normVars, msgVars, fwdVars, sseVars, authVars, store, diagVars>>

\* chunks_to_sse: finally: sse = done_event_bytes(); buffer += sse; yield sse
EncodeDone ==
    /\ epc = "loop"
    /\ Len(yielded) = Len(objs)
    /\ epc' = "done"
    /\ enc_buffer' = enc_buffer \o done_event_bytes
    /\ yielded' = Append(yielded, done_event_bytes)
    /\ UNCHANGED objs
    /\ UNCHANGED <<streamVars, normVars, msgVars, fwdVars, sseVars, authVars, store, diagVars>>

NextEncode ==
    \/ \E chunks \in ObjectLists : Encode(chunks)
    \/ EncodeNext
    \/ EncodeDone

SpecEncode == Init /\ [][NextEncode]_vars

(***************************************************************************)
(* One inbound request through the url map, require_auth and its view.     *)
(***************************************************************************)
\* the request reaches the application and is matched against the url map
Arrive(r) ==
    /\ apc = "idle"
    /\ apc' = "routed"
    /\ areq' = r
    /\ UNCHANGED <<aresp, reached>>
    /\ UNCHANGED <<streamVars, normVars, msgVars, fwdVars, sseVars, encVars, store, diagVars>>

\* health
HealthView ==
    /\ apc = "routed"
    /\ Endpoint(areq) = "health"
    /\ apc' = "done"
    /\ aresp' = 200
    /\ reached' = "health"
    /\ UNCHANGED areq
    /\ UNCHANGED <<streamVars, normVars, msgVars, fwdVars, sseVars, encVars, store, diagVars>>

\* require_auth.wrapper
RequireAuth ==
    /\ apc = "routed"
    /\ Endpoint(areq) # "health"
    /\ IF valid_brearer_token(areq)
       THEN apc' = "authorized" /\ UNCHANGED aresp
       ELSE apc' = "done" /\ aresp' = 401
    /\ UNCHANGED <<areq, reached>>
    /\ UNCHANGED <<streamVars, normVars, msgVars, fwdVars, sseVars, encVars, store, diagVars>>

\* models
ModelsView ==
    /\ apc = "authorized"
    /\ Endpoint(areq) = "models"
    /\ apc' = "done"
    /\ aresp' = 200
    /\ reached' = "models"
    /\ UNCHANGED areq
    /\ UNCHANGED <<streamVars, normVars, msgVars, fwdVars, sseVars, encVars, store, diagVars>>

\* catch_all: adapter = AzureAdapter(); return adapter.forward(request), whose
\* response has the status forward gave it
CatchAll(status) ==
    /\ apc = "authorized"
    /\ Endpoint(areq) = "catch_all"
    /\ apc' = "done"
    /\ aresp' = status
    /\ reached' = "catch_all"
    /\ UNCHANGED areq
    /\ UNCHANGED <<streamVars, normVars, msgVars, fwdVars, sseVars, encVars, store, diagVars>>

ForwardStatuses == Statuses \cup {401, 405}

NextAuth ==
    \/ \E r \in InboundRequests : Arrive(r)
    \/ HealthView
    \/ RequireAuth
    \/ ModelsView
    \/ \E status \in ForwardStatuses : CatchAll(status)

SpecAuth == Init /\ [][NextAuth]_vars

(***************************************************************************)
(* Two workers, each taking its request through AzureAdapter.forward and   *)
(* the generator of ResponseAdapter.adapt, one step of one worker at a     *)
(* time.                                                                   *)
(***************************************************************************)
WorkerModels == {"gpt-high", "gpt-low"}

\* _create_chat_completion_id of the stream of worker w
StreamIdOf(w) == IF w = 1 THEN "chatcmpl-A" ELSE "chatcmpl-B"

WorkerEvents ==
    {SSEEvent(OutputItemAdded, "json", JItem("reasoning")),
     SSEEvent(ReasoningSummaryTextDelta, "json", JDelta("A")),
     SSEEvent(OutputTextDelta, "json", JDelta("C")),
     SSEEvent(OutputItemAdded, "json", JFunctionCall("f", Absent, "call_1"))}

OnlyPost == "405 Only POST supported for Azure backend"

\* "model": self.adapter.inbound_model of the chunks a handler built
RECURSIVE EchoModel(_, _)
EchoModel(chunks, model) ==
    IF chunks = <<>> THEN <<>>
    ELSE <<[Head(chunks) EXCEPT !.model = model]>> \o EchoModel(Tail(chunks), model)

\* the attributes a handler assigned: those of after that before does not show alike
Assigned(before, after) ==
    {a \in DOMAIN after : a \notin DOMAIN before \/ before[a] # after[a]}

RECURSIVE AssignSet(_, _, _, _, _)
AssignSet(st, w, obj, names, values) ==
    IF names = {} THEN st
    ELSE LET a == CHOOSE a \in names : TRUE IN
         AssignSet(Assign(st, w, obj, a, values[a]), w, obj, names \ {a}, values)

\* catch_all: adapter = AzureAdapter(); forward: self.request_adapter.adapt(req) up
\* to the method check and the inbound model
WAdapt(w, method, model) ==
    /\ store.workers[w].pc = "idle"
    /\ LET st0 == [store EXCEPT !.workers[w].method = method,
                                !.workers[w].model = model,
                                !.workers[w].pc = "adapted"]
           st1 == Assign(st0, w, "response", "adapter", "AzureAdapter")
           st2 == AssignAll(st1, w, "azure", <<"inbound_model", "early_response">>,
                            [inbound_model |-> None, early_response |-> None])
       IN store' = IF method # "POST"
                   THEN Assign(st2, w, "azure", "early_response", OnlyPost)
                   ELSE Assign(st2, w, "azure", "inbound_model", model)
    /\ UNCHANGED <<streamVars, normVars, msgVars, fwdVars, sseVars, encVars, authVars, diagVars>>

\* forward: if self.early_response is not None: return self.early_response; else the
\* upstream call, answered with status 200
WForward(w) ==
    /\ store.workers[w].pc = "adapted"
    /\ store' = IF View(store, w, "azure").early_response # None
                THEN [store EXCEPT !.workers[w].pc = "done", !.workers[w].status = 405]
                ELSE [store EXCEPT !.workers[w].pc = "ready"]
    /\ UNCHANGED <<streamVars, normVars, msgVars, fwdVars, sseVars, encVars, authVars, diagVars>>

\* generate(): the first next() of the response body
WGenerate(w) ==
    /\ store.workers[w].pc = "ready"
    /\ store' = AssignAll([store EXCEPT !.workers[w].pc = "streaming",
                                        !.workers[w].id = StreamIdOf(w),
                                        !.workers[w].status = 200],
                          w, "response",
                          <<"_chat_completion_id", "_started_thinking", "_thinking",
                            "_called_function">>,
                          [_chat_completion_id |-> StreamIdOf(w),
                           _started_thinking |-> FALSE,
                           _thinking |-> FALSE,
                           _called_function |-> FALSE])
    /\ UNCHANGED <<streamVars, normVars, msgVars, fwdVars, sseVars, encVars, authVars, diagVars>>

\* gen_dicts: one event of the worker's upstream stream and its chunks
WEvent(w, ev) ==
    /\ store.workers[w].pc = "streaming"
    /\ Len(store.workers[w].evs) < MaxWorkerEvents
    /\ LET before == View(store, w, "response")
           r == Translate(before, ev)
           model == View(store, w, "azure").inbound_model
           st == [store EXCEPT !.workers[w].evs = Append(@, ev),
                               !.workers[w].out = @ \o EchoModel(r.out, model)]
       IN store' = IF r.raised
                   THEN \* the finally block, then the exception ends the stream
                        [st EXCEPT !.workers[w].pc = "done",
                                   !.workers[w].out = @ \o EchoModel(<<FinishChunk(before)>>, model)]
                   ELSE AssignSet(st, w, "response", Assigned(before, r.self), r.self)
    /\ UNCHANGED <<streamVars, normVars, msgVars, fwdVars, sseVars, encVars, authVars, diagVars>>

\* gen_dicts: the finally block at the end of the upstream stream
WFinish(w) ==
    /\ store.workers[w].pc = "streaming"
    /\ LET chunk == FinishChunk(View(store, w, "response"))
           model == View(store, w, "azure").inbound_model
       IN store' = [store EXCEPT !.workers[w].pc = "done",
                                 !.workers[w].out = @ \o EchoModel(<<chunk>>, model)]
    /\ UNCHANGED <<streamVars, normVars, msgVars, fwdVars, sseVars, encVars, authVars, diagVars>>

NextWorkers ==
    \E w \in Workers :
        \/ \E method \in AuthMethods, model \in WorkerModels : WAdapt(w, method, model)
        \/ WForward(w)
        \/ WGenerate(w)
        \/ \E ev \in WorkerEvents : WEvent(w, ev)
        \/ WFinish(w)

SpecWorkers == Init /\ [][NextWorkers]_vars

(***************************************************************************)
(* The body of the upstream request and the diagnostic of a failed call.   *)
(***************************************************************************)
\* RequestAdapter.adapt builds responses_body from the payload b
AdaptBodyKeys(b) ==
    /\ dpc = "idle"
    /\ inbound' = b
    /\ responses_body' = ResponsesBody(b)
    /\ dpc' = "adapted"
    /\ UNCHANGED report
    /\ UNCHANGED <<streamVars, normVars, msgVars, fwdVars, sseVars, encVars, authVars, store>>

\* forward: the upstream answers 200 and the response is adapted
UpstreamSucceeds ==
    /\ dpc = "adapted"
    /\ dpc' = "streaming"
    /\ UNCHANGED <<inbound, responses_body, report>>
    /\ UNCHANGED <<streamVars, normVars, msgVars, fwdVars, sseVars, encVars, authVars, store>>

\* forward: the upstream answers resp with a status other than 200;
\* _handle_azure_error redacts the body in place and, when the upstream body is
\* JSON, returns the report (json.dumps raises on the bytes of any other body)
HandleAzureError(resp) ==
    /\ dpc = "adapted"
    /\ resp.status # 200
    /\ responses_body' = RedactBody(responses_body)
    /\ IF resp.body = "json"
       THEN /\ report' = [status |-> resp.status, request_body |-> <<responses_body'>>]
            /\ dpc' = "reported"
       ELSE /\ UNCHANGED report
            /\ dpc' = "raised"
    /\ UNCHANGED inbound
    /\ UNCHANGED <<streamVars, normVars, msgVars, fwdVars, sseVars, encVars, authVars, store>>

NextDiag ==
    \/ \E b \in InboundBodies : AdaptBodyKeys(b)
    \/ UpstreamSucceeds
    \/ \E resp \in UpstreamResponses : HandleAzureError(resp)

SpecDiag == Init /\ [][NextDiag]_vars

(***************************************************************************)
(* Properties of the stream.                                               *)
(***************************************************************************)
Last(seq) == seq[Len(seq)]

IsChunkFrame(f) == f.data = "json"

\* a frame carrying a chunk whose finish_reason is not null
IsTerminal(f) == IsChunkFrame(f) /\ f.obj.finish_reason # None

ChunkFrames(frames) == SelectSeq(frames, IsChunkFrame)

HasContent(f) == IsChunkFrame(f) /\ f.obj.content # Absent

\* the content fragments of the chunks received, in order
RECURSIVE Contents(_)
Contents(frames) ==
    IF frames = <<>> THEN <<>>
    ELSE (IF HasContent(Head(frames)) THEN <<Head(frames).obj.content>> ELSE <<>>)
         \o Contents(Tail(frames))

Started == gpc # "unstarted"

\* an output_item.added event whose item.type is "function_call"
IsFunctionCallAdded(ev) ==
    /\ ~is_done(ev)
    /\ handler_name(ev) = "_output_item__added"
    /\ json(ev).t = "dict"
    /\ json(ev).item = "dict"
    /\ json(ev).itype = "function_call"

\* C1: a stream that was started and has ended, in whatever way (upstream exhausted,
\* an error raised mid-stream, the consumer closing the generator), has delivered
\* exactly one chunk with a non-null finish_reason, and that chunk is its last chunk.
C1_ExactlyOneTerminalChunk ==
    (pc = "finished" /\ Started) =>
        LET chunks == ChunkFrames(downstream) IN
        /\ chunks # <<>>
        /\ IsTerminal(Last(chunks))
        /\ \A i \in 1..(Len(chunks) - 1) : ~IsTerminal(chunks[i])

\* C2: the finish_reason of the terminal chunk is "tool_calls" if and only if the
\* events translated so far contain an output_item.added event whose item.type is
\* "function_call"; otherwise it is "stop".
C2_FinishReasonIffFunctionCall ==
    \A i \in DOMAIN downstream :
        IsTerminal(downstream[i]) =>
            downstream[i].obj.finish_reason =
                IF \E j \in DOMAIN consumed : IsFunctionCallAdded(consumed[j])
                THEN "tool_calls" ELSE "stop"

IsReasoningAdded(ev) == ev = SSEEvent(OutputItemAdded, "json", JItem("reasoning"))

IsSummaryDelta(ev) ==
    /\ ev.event = ReasoningSummaryTextDelta
    /\ ev.data.text = "json"
    /\ ev.data.value.t = "dict"
    /\ ev.data.value.delta # Absent

IsSummaryDone(ev) == ev.event = ReasoningSummaryTextDone /\ ~is_done(ev)

IsTextDelta(ev) ==
    /\ ev.event = OutputTextDelta
    /\ ev.data.text = "json"
    /\ ev.data.value.t = "dict"
    /\ ev.data.value.delta # Absent

\* output_item.added(reasoning), n >= 1 summary-text deltas, summary-text done,
\* output_text delta
IsThinkSequence(evs) ==
    /\ Len(evs) >= 4
    /\ IsReasoningAdded(evs[1])
    /\ \A i \in 2..(Len(evs) - 2) : IsSummaryDelta(evs[i])
    /\ IsSummaryDone(evs[Len(evs) - 1])
    /\ IsTextDelta(evs[Len(evs)])

C4_UnrecognizedIgnored ==
    [][(consumed' # consumed /\ Last(consumed').event \notin RecognizedNames)
          => (self' = self /\ downstream' = downstream /\ pc' = "running")]_vars

\* C5: while the generator is reading, a recognized event whose data is not
\* parseable as JSON is translated exactly as the same event with the payload {}
\* (same chunks, same instance afterwards), and translating it does not raise.
C5_UnparseableAsEmptyObject ==
    pc = "running" =>
        \A n \in RecognizedNames : \A text \in {"invalid", "blank"} :
            LET got == Translate(self, SSEEvent(n, text, JNone))
                asEmpty == Translate(self, SSEEvent(n, "json", JEmptyObj))
            IN  got = asEmpty /\ ~got.raised

\* C6: once generate() has been started, upstream_resp.close() has been called
\* exactly once if the generator has finished (exhausted, raised or closed by the
\* consumer), and not at all before that.
C6_CloseExactlyWhenFinished ==
    Started => closed = (IF pc = "finished" THEN 1 ELSE 0)

C6_Witness ==
    /\ pc = "finished"
    /\ outcome = "runtime_error"
    /\ consumed # <<>>
    /\ closed = 1

\* C7: when the consumer has closed the generator, at whatever point after the
\* response was returned, the upstream connection has been closed.
C7_CancelClosesUpstream ==
    (pc = "finished" /\ outcome \in {"never_started", "runtime_error", "closed"})
        => closed >= 1

\* C8: a stream that ended normally or by an error raised mid-stream carries the
\* [DONE] frame exactly once, as its last frame, right after the frame of the
\* terminal chunk.
C8_DoneOnceAfterTerminal ==
    (pc = "finished" /\ outcome \in {"returned", "raised"}) =>
        /\ Len(downstream) >= 2
        /\ Last(downstream).data = "[DONE]"
        /\ \A i \in 1..(Len(downstream) - 1) : downstream[i].data # "[DONE]"
        /\ IsTerminal(downstream[Len(downstream) - 1])

(***************************************************************************)
(* Properties of the call-id normalizer.                                   *)
(***************************************************************************)
HexChars == {"0", "1", "2", "3", "4", "5", "6", "7", "8", "9", "a", "b", "c", "d", "e", "f"}

IsEmptyOrNone(id) == id = NoneStr \/ id = <<>>

\* exactly 64 lowercase hexadecimal characters
IsHex64(id) == Len(id) = 64 /\ \A i \in 1..64 : id[i] \in HexChars

\* C9: within one translation every _normalize_call_id call with the same original
\* returns the same value, and each call leaves every key the map had with the
\* value it had.
C9_NormalizeStable ==
    /\ \A i, j \in DOMAIN calls :
          calls[i].original = calls[j].original => calls[i].ret = calls[j].ret
    /\ \A i \in DOMAIN calls :
          \A k \in DOMAIN calls[i].before :
              k \in DOMAIN calls[i].after /\ calls[i].after[k] = calls[i].before[k]
    /\ \A i \in 1..(Len(calls) - 1) : calls[i + 1].before = calls[i].after

C9_Witness ==
    /\ Len(calls) = 3
    /\ calls[1].original = Id80
    /\ calls[2].original = Id65
    /\ calls[3].original = Id80
    /\ DOMAIN call_id_map = {Id65, Id80}

\* C10: _normalize_call_id returns an empty or absent original unchanged; returns
\* an original of at most 64 characters that is no key of the map unchanged, adding
\* no entry; for a longer original returns 64 lowercase hexadecimal characters,
\* stored under that original; so every non-empty result has at most 64 characters.
C10_NormalizeContract ==
    \A i \in DOMAIN calls :
        LET c == calls[i] IN
        /\ IsEmptyOrNone(c.original) => (c.ret = c.original /\ c.after = c.before)
        /\ (~IsEmptyOrNone(c.original) /\ Len(c.original) <= 64
                /\ c.original \notin DOMAIN c.before)
              => (c.ret = c.original /\ c.after = c.before)
        /\ (~IsEmptyOrNone(c.original) /\ Len(c.original) > 64)
              => (IsHex64(c.ret) /\ c.original \in DOMAIN c.after
                    /\ c.after[c.original] = c.ret)
        /\ ~IsEmptyOrNone(c.ret) => Len(c.ret) <= 64

C10_Witness ==
    /\ Len(calls) = 3
    /\ calls[1].original = Id64
    /\ calls[2].original = Id65
    /\ calls[3].original = NoneStr

(***************************************************************************)
(* Properties of the message translation.                                  *)
(***************************************************************************)
IsInstructionRole(role) == role \in {"system", "developer"}

IsToolMessage(m) == m.role = "tool"

\* a message the loop turns into a message item
IsPlainMessage(m) == ~IsInstructionRole(m.role) /\ ~IsToolMessage(m)

\* the input items made for message a
ItemsOf(a) == {i \in DOMAIN item_src : item_src[i].msg = a}

ItemFor(a, k) == {i \in DOMAIN item_src : item_src[i] = [msg |-> a, call |-> k]}

\* C11: a tool message and a tool-call entry of a message with the same original
\* id, in either order, give a function_call_output item and a function_call item
\* with the same call_id, and that call_id is a 64-character hex id when the
\* original is longer than 64 characters.
C11_PairedCallIds ==
    \A a, b \in DOMAIN messages :
        \A k \in DOMAIN messages[b].tool_calls :
            (/\ IsToolMessage(messages[a])
             /\ IsPlainMessage(messages[b])
             /\ messages[a].tool_call_id = messages[b].tool_calls[k].id)
            => \E i \in ItemFor(b, k), j \in ItemFor(a, 0) :
                   /\ input_items[i].type = "function_call"
                   /\ input_items[j].type = "function_call_output"
                   /\ input_items[i].call_id = input_items[j].call_id
                   /\ Len(messages[a].tool_call_id) > 64 => IsHex64(input_items[i].call_id)

\* the 80-character id on a tool message before and after the assistant message
\* that carries it
C11_Witness ==
    /\ mapped.done
    /\ Len(messages) = 3
    /\ IsToolMessage(messages[1]) /\ messages[1].tool_call_id = Id80
    /\ messages[2].role = "assistant"
    /\ Len(messages[2].tool_calls) = 2
    /\ messages[2].tool_calls[2].id = Id80
    /\ IsToolMessage(messages[3]) /\ messages[3].tool_call_id = Id80
    /\ input_items[1].call_id = DigestOfId80
    /\ input_items[4].call_id = DigestOfId80
    /\ input_items[5].call_id = DigestOfId80

\* C12: the input items are in the order of the messages they were made for, and
\* the function_call items of a message follow its own item at once, in the order
\* of its tool-call entries; every message that has items has all of them.
C12_ItemOrder ==
    /\ Len(input_items) = Len(item_src)
    /\ \A i \in DOMAIN item_src :
           LET s == item_src[i] IN
           /\ s.msg \in DOMAIN messages
           /\ i = 1 => s.call = 0
           /\ i > 1 => \/ item_src[i - 1].msg < s.msg /\ s.call = 0
                       \/ item_src[i - 1].msg = s.msg /\ s.call = item_src[i - 1].call + 1
           /\ s.call = 0 =>
                  IF IsToolMessage(messages[s.msg])
                  THEN input_items[i].type = "function_call_output"
                  ELSE input_items[i].type = Absent
           /\ s.call > 0 =>
                  /\ IsPlainMessage(messages[s.msg])
                  /\ s.call \in DOMAIN messages[s.msg].tool_calls
                  /\ input_items[i].type = "function_call"
                  /\ input_items[i].name = messages[s.msg].tool_calls[s.call].name
    /\ \A a \in DOMAIN messages :
           /\ ~IsInstructionRole(messages[a].role) => ItemFor(a, 0) # {}
           /\ IsPlainMessage(messages[a]) =>
                  \A k \in DOMAIN messages[a].tool_calls : ItemFor(a, k) # {}

\* two messages with tool-call entries and a tool message between them
C12_Witness ==
    /\ mapped.done
    /\ Len(messages) = 3
    /\ messages[1].role = "assistant" /\ Len(messages[1].tool_calls) = 2
    /\ IsToolMessage(messages[2])
    /\ messages[3].role = "assistant" /\ Len(messages[3].tool_calls) = 1
    /\ Len(input_items) = 6
    /\ item_src[3] = [msg |-> 1, call |-> 2]
    /\ item_src[6] = [msg |-> 3, call |-> 1]

\* the non-empty texts of the system and developer messages, in order
RECURSIVE InstructionTexts(_)
InstructionTexts(msgs) ==
    IF msgs = <<>> THEN <<>>
    ELSE IF IsInstructionRole(msgs[1].role) /\ content_to_text(msgs[1].content) # ""
    THEN <<content_to_text(msgs[1].content)>> \o InstructionTexts(Tail(msgs))
    ELSE InstructionTexts(Tail(msgs))

\* C13: a system or developer message has no input item and its text is in
\* instructions (texts joined by a blank line, None without any); a tool message
\* has exactly one item, a function_call_output with status completed; any other
\* message has exactly one message item, with the role of the message and a
\* content part of type input_text exactly when that role is user.
C13_RoleMapping ==
    /\ \A a \in DOMAIN messages :
           LET m == messages[a] IN
           /\ IsInstructionRole(m.role) => ItemsOf(a) = {}
           /\ IsToolMessage(m) =>
                  /\ Cardinality(ItemsOf(a)) = 1
                  /\ \A i \in ItemsOf(a) :
                         /\ input_items[i].type = "function_call_output"
                         /\ input_items[i].status = "completed"
           /\ IsPlainMessage(m) =>
                  /\ Cardinality(ItemFor(a, 0)) = 1
                  /\ \A i \in ItemFor(a, 0) :
                         /\ input_items[i].type = Absent
                         /\ input_items[i].role = m.role
                         /\ input_items[i].content_type = "input_text" <=> m.role = "user"
                         /\ input_items[i].content_type \in {"input_text", "output_text"}
                  /\ \A i \in ItemsOf(a) \ ItemFor(a, 0) :
                         input_items[i].type = "function_call"
    /\ mapped.done =>
           mapped.instructions = IF InstructionTexts(messages) = <<>> THEN None
                                 ELSE JoinWith("\n\n", InstructionTexts(messages))

(***************************************************************************)
(* Properties of forward.                                                  *)
(***************************************************************************)
\* adapt has ended, either by returning or by raising
AdaptEnded == fpc \in {"adapted", "responded", "done"}

ForwardEnded == fpc = "done"

\* the model field the body carries when it is a JSON object
IsObjectRequest == req.method = "POST" /\ req.body.kind = "object"

ModelIsStr == IsObjectRequest /\ req.body.model # AbsentStr

\* the effort the code derives from a str model
DerivedEffort == lower(replace(req.body.model, GptDash, <<>>))

Gpt5 == <<"g", "p", "t", "5">>
GptUltra == GptDash \o <<"u", "l", "t", "r", "a">>

\* C14: a POST with model gpt-<e>, e one of high, medium, low, gets an outbound
\* body with reasoning.effort = e; a POST whose model derives another effort
\* (gpt5, gpt-ultra) fails in translation and no upstream call is made.
C14_EffortFromModel ==
    /\ \A e \in Efforts :
           (AdaptEnded /\ ModelIsStr /\ req.body.model = GptDash \o e)
           => /\ fwd.kind # "raised" \/ upstream # <<>>
              /\ request_kwargs.returned
              /\ request_kwargs.json.effort = e
    /\ (/\ AdaptEnded
        /\ ModelIsStr
        /\ DerivedEffort \notin Efforts \/ req.body.model \in {Gpt5, GptUltra})
       => /\ fpc = "done"
          /\ fwd.kind = "raised"
          /\ ~request_kwargs.returned
          /\ upstream = <<>>

\* gpt-ultra has been refused
C14_Witness ==
    /\ ForwardEnded
    /\ ModelIsStr
    /\ adapter.inbound_model = GptUltra
    /\ fwd = Raising("ValueError")
    /\ upstream = <<>>

\* C15: adapt returns an outbound descriptor only for a model gpt-<e> with e one
\* of high, medium, low.
C15_OnlyGptEffortPasses ==
    request_kwargs.returned => \E e \in Efforts : req.body.model = GptDash \o e

\* C16: a request refused for its method or for the effort suffix of its model
\* ends forward with a returned 4xx response that carries a text, not with an
\* exception, and without an upstream call.
C16_ValidationFailureIsResponse ==
    (/\ ForwardEnded
     /\ \/ req.method # "POST"
        \/ ModelIsStr /\ DerivedEffort \notin Efforts)
    => /\ fwd.kind = "returned"
       /\ fwd.response.status \in 400..499
       /\ fwd.response.text \notin {None, Absent, ""}
       /\ upstream = <<>>

\* C17: for a method other than POST adapt sets the 405 text/plain early
\* response and does nothing else (no payload parsed, no body composed, no
\* effort derived), and forward returns that response without an upstream call.
C17_NonPostEarlyResponse ==
    (req.method # "POST" /\ fpc # "idle" /\ fpc # "method")
    => /\ adapter.early_response = EarlyResponse
       /\ adapter.early_response.status = 405
       /\ adapter.early_response.mimetype = "text/plain"
       /\ adapter.inbound_model = NoneStr
       /\ payload = NoPayload
       /\ request_kwargs = NoKwargs
       /\ upstream = <<>>
       /\ translated = 0
       /\ fpc \in {"adapted", "done"}
       /\ fpc = "done" => fwd = Returning(EarlyResponse)

C17_Witness ==
    /\ ForwardEnded
    /\ req.method = "GET"
    /\ req.body.kind = "object"
    /\ req.body.model = GptUltra
    /\ fwd = Returning(EarlyResponse)

\* a POST body that is empty, not JSON, or JSON but not an object
IsMalformedPost == req.method = "POST" /\ req.body.kind \in {"empty", "invalid", "array"}

\* what adapt makes of the body {}
EmptyObjectPayload == PayloadOrEmpty(_parse_json_body(Body("object", AbsentStr, <<>>)))

C19_TranslateIffSuccess ==
    (ForwardEnded /\ upstream # <<>> /\ ~upstream[Len(upstream)].raised)
    => LET status == upstream[Len(upstream)].status IN
       /\ translated = 1 <=> status \in 200..299
       /\ status \notin 200..299 =>
              /\ fwd.kind = "returned"
              /\ fwd.response.kind = "diagnostic"
              /\ fwd.response.status = status

\* C20: forward makes at most one upstream call: one when adapt returned an
\* outbound descriptor, none when it set an early response or raised; a call
\* that failed or answered with another status than 200 is not made again.
C20_AtMostOneUpstreamCall ==
    /\ Len(upstream) <= 1
    /\ ForwardEnded =>
           Len(upstream) = IF request_kwargs.returned /\ adapter.early_response = NoResponse
                           THEN 1 ELSE 0
    /\ upstream # <<>> => request_kwargs.returned /\ request_kwargs.stream

\* forward has ended after an upstream call that answered 500
C20_Witness ==
    /\ ForwardEnded
    /\ Len(upstream) = 1
    /\ upstream[1].status = 500
    /\ request_kwargs.returned

(***************************************************************************)
(* Properties of single events of the stream.                              *)
(***************************************************************************)
IsThinking(obj) == getattr(obj, "_thinking", FALSE)

CloseMarker == "</think>\n\n"

\* the chunks of out whose content is the closing marker
MarkerChunks(out) == {i \in DOMAIN out : out[i].content = CloseMarker}

SummaryTextDoneEvent == SSEEvent(ReasoningSummaryTextDone, "json", JEmptyObj)

\* C28: while the generator is reading, a reasoning summary-text done event gives
\* exactly one chunk, a content delta of "\n\n", and leaves the instance as it was
\* (_thinking, _started_thinking and _called_function unchanged, no closing marker).
C28_SummaryDoneFrame ==
    pc = "running" =>
        LET r == Translate(self, SummaryTextDoneEvent) IN
        /\ ~r.raised
        /\ Len(r.out) = 1
        /\ r.out[1].content = "\n\n"
        /\ r.out[1].finish_reason = None
        /\ r.self = self

\* an event that closes an open think block: an output_text delta, a function-call
\* arguments delta or an output_item.added event announcing a function call
IsClosingEvent(ev) ==
    /\ ~is_done(ev)
    /\ \/ ev.event \in {OutputTextDelta, FunctionCallArgumentsDelta}
       \/ IsFunctionCallAdded(ev)

\* C29: while the generator is reading, an output_text delta, a function-call
\* arguments delta or an output_item.added(function_call) event gives the closing
\* marker exactly when _thinking is true, as a chunk of its own right before the
\* event's own chunk, and _thinking is false afterwards; no other event gives the
\* closing marker.
C29_CloseMarkerExactlyWhenThinking ==
    pc = "running" =>
        \A ev \in Events :
            LET r == Translate(self, ev) IN
            IF IsClosingEvent(ev) /\ IsThinking(self)
            THEN /\ ~r.raised
                 /\ Len(r.out) = 2
                 /\ MarkerChunks(r.out) = {1}
                 /\ r.out[1].tool_calls = <<>>
                 /\ ~IsThinking(r.self)
            ELSE MarkerChunks(r.out) = {}

\* C30: an event whose trimmed data is [DONE] gives no frame and changes nothing of the
\* stream: the instance, the pending chunks and the upstream connection stay as
\* they are and the generator goes on reading; no terminal chunk is emitted for it.
C30_DoneSentinelIgnored ==
    [][(consumed' # consumed /\ Last(consumed').data.text = "done")
          => /\ pc = "running" /\ pc' = "running"
             /\ UNCHANGED <<gpc, self, res, exc, downstream, dropped, closed, outcome>>]_vars

\* a text delta translated and delivered after two [DONE] events, then the end
C30_Witness ==
    /\ Len(consumed) = 3
    /\ consumed[1] = SSEEvent(<<>>, "done", JNone)
    /\ consumed[2] = SSEEvent(OutputTextDelta, "done", JNone)
    /\ consumed[3] = SSEEvent(OutputTextDelta, "json", JDelta("C"))
    /\ outcome = "returned"
    /\ Contents(downstream) = <<"C">>
    /\ Len(downstream) = 3

(***************************************************************************)
(* Properties of the event decoder and encoder.                            *)
(***************************************************************************)
\* the events a fresh decoder gives for the bytes b fed as one chunk, then flushed
AllEvents(b) ==
    LET whole == feed(SSEDecoderInit, b) IN whole.events \o end_of_input(whole.dec).events

\* C21: each frame chunks_to_sse yielded for a chunk x, fed to a fresh decoder,
\* gives exactly one event and nothing pending; the JSON of that event is x, and
\* encoding that JSON again gives the same frame.
C21_EncodeDecodeRoundTrip ==
    \A i \in DOMAIN yielded :
        i <= Len(objs) =>
            LET r == feed(SSEDecoderInit, yielded[i]) IN
            /\ Len(r.events) = 1
            /\ r.dec.buffer = <<>> /\ r.dec._event_lines = <<>>
            /\ EventJson(r.events[1]) = objs[i]
            /\ encode_sse_json(EventJson(r.events[1])) = yielded[i]

\* C22: however the bytes fed so far were cut into chunks, the decoder and the
\* events yielded are those of the same bytes fed as one chunk, and after
\* end_of_input the events are those of the one chunk followed by its flush.
C22_ChunkBoundaryIndependence ==
    spc = "feeding" =>
        LET whole == feed(SSEDecoderInit, decoder.full_buffer) IN
        IF flushes = 0
        THEN events = whole.events /\ decoder = whole.dec
        ELSE events = whole.events \o end_of_input(whole.dec).events

\* a chunk ended between the \r and the \n of a line, after an event was yielded
C22_Witness ==
    /\ spc = "feeding"
    /\ Len(events) >= 1
    /\ decoder.buffer # <<>> /\ Last(decoder.buffer) = CR
    /\ wire # <<>> /\ Head(wire) = LF

RECURSIVE LinesBytes(_)
LinesBytes(lines) ==
    IF lines = <<>> THEN 0 ELSE Len(Head(lines)) + 2 + LinesBytes(Tail(lines))

\* the bytes of the current partial event: the buffer tail and the pending lines
\* with their line ends
PendingBytes(dec) == Len(dec.buffer) + LinesBytes(dec._event_lines)

\* C23: the decoder holds no more stream data than the current partial event, and
\* the encoder no more than the frame it yielded last.
C23_HoldsOnlyPartialEvent ==
    /\ Len(decoder.full_buffer) <= PendingBytes(decoder)
    /\ Len(enc_buffer) <= (IF yielded = <<>> THEN 0 ELSE Len(Last(yielded)))

\* C26: end_of_input with lines pending yields one event made of them, whose index
\* is the next one, and leaves no line pending; with no line pending, and when
\* called a second time, it yields nothing.
C26_FlushOnce ==
    [][flushes' = flushes + 1 =>
          /\ decoder._event_lines # <<>> =>
                 /\ events' = Append(events, NextEvent(decoder))
                 /\ Last(events').index = Len(events) + 1
                 /\ decoder'._event_lines = <<>>
          /\ decoder._event_lines = <<>> => events' = events
          /\ flushes >= 1 => events' = events]_vars

\* end_of_input called twice after a stream that ended inside its second event
C26_Witness ==
    /\ flushes = 2
    /\ Len(events) = 2
    /\ Len(feed(SSEDecoderInit, decoder.full_buffer).events) = 1
    /\ events[2].index = 2

\* the bytes b without the lines that begin with ':'
RECURSIVE WithoutComments(_)
WithoutComments(b) ==
    IF b = <<>> THEN <<>>
    ELSE LET idx == find(b, LF)
             n == IF idx = 0 THEN Len(b) ELSE idx
         IN (IF Head(b) = ":" THEN <<>> ELSE SubSeq(b, 1, n)) \o WithoutComments(Drop(b, n))

\* C27: once the stream is read to its end and flushed, the events yielded are
\* those of the same stream without its comment lines.
C27_CommentsHaveNoEffect ==
    (spc = "feeding" /\ wire = <<>> /\ flushes >= 1) =>
        events = AllEvents(WithoutComments(decoder.full_buffer))

(***************************************************************************)
(* Properties of authentication and of concurrent requests.                *)
(***************************************************************************)
\* the request carries the shared secret as the token of its Authorization header
CarriesSecret(r) == r.authorization.token = SERVICE_API_KEY

FreshStream(id) ==
    [adapter |-> "AzureAdapter", _chat_completion_id |-> id,
     _started_thinking |-> FALSE, _thinking |-> FALSE, _called_function |-> FALSE]

\* the chunks of the events evs translated from the instance obj on, and the
\* instance afterwards
RECURSIVE OwnChunks(_, _)
OwnChunks(obj, evs) ==
    IF evs = <<>> THEN [self |-> obj, out |-> <<>>]
    ELSE LET r == Translate(obj, Head(evs))
             rest == OwnChunks(r.self, Tail(evs))
         IN [self |-> rest.self, out |-> r.out \o rest.out]

\* the chunks of a worker as its own request and its own events give them
OwnStream(wk) ==
    IF wk.pc \notin {"streaming", "done"} \/ wk.method # "POST" THEN <<>>
    ELSE LET f == OwnChunks(FreshStream(wk.id), wk.evs) IN
         EchoModel(f.out \o (IF wk.pc = "done" THEN <<FinishChunk(f.self)>> ELSE <<>>),
                   wk.model)

\* C25: whatever the interleaving of the two workers, the chunks of each are those
\* its own request and its own upstream events give (stream id, echoed model, think
\* markers, tool-call deltas, finish_reason), its response is the early response
\* exactly when its own request is not a POST, and no class attribute is written.
C25_NoStateAcrossRequests ==
    /\ \A w \in Workers :
           LET wk == store.workers[w] IN
           /\ wk.out = OwnStream(wk)
           /\ wk.pc \in {"ready", "streaming"} => wk.method = "POST"
           /\ wk.pc = "done" => wk.status = (IF wk.method = "POST" THEN 200 ELSE 405)
    /\ store.class = ClassInit

\* the two streams open at once, one inside a think block and the other after a
\* function call, with different models
C25_Witness ==
    /\ \A w \in Workers : store.workers[w].pc = "streaming"
    /\ store.workers[1].model = "gpt-high" /\ store.workers[2].model = "gpt-low"
    /\ View(store, 1, "response")._thinking
    /\ ~View(store, 2, "response")._thinking
    /\ View(store, 2, "response")._called_function
    /\ Len(store.workers[1].out) = 2 /\ store.workers[1].out[2].model = "gpt-high"
    /\ Len(store.workers[2].out) = 1 /\ store.workers[2].out[1].model = "gpt-low"

(***************************************************************************)
(* Properties of the think markers, the finish_reason and the payloads.    *)
(***************************************************************************)
OpenMarker == "<think>\n\n"

IsMarker(content) == content \in {OpenMarker, CloseMarker}

\* the think markers among the frames, in order
Markers(fs) == SelectSeq(Contents(fs), IsMarker)

\* C33: the think markers the consumer received alternate and start with an opener:
\* the odd ones are "<think>\n\n" and the even ones "</think>\n\n".
C33_MarkersAlternate ==
    LET ms == Markers(downstream) IN
    \A i \in DOMAIN ms : ms[i] = (IF i % 2 = 1 THEN OpenMarker ELSE CloseMarker)

\* C34: when the terminal chunk is received, the last think marker received before
\* it, if there is one, is the closing marker.
C34_ThinkClosedBeforeTerminal ==
    \A i \in DOMAIN downstream :
        IsTerminal(downstream[i]) =>
            LET ms == Markers(SubSeq(downstream, 1, i - 1)) IN
            ms = <<>> \/ Last(ms) = CloseMarker

\* a frame carrying a chunk with a tool_calls delta
HasToolCalls(f) == IsChunkFrame(f) /\ f.obj.tool_calls # <<>>

\* C35: the finish_reason of the terminal chunk received is "tool_calls" if and only
\* if a chunk received before it carried a tool_calls delta.
C35_FinishReasonAgreesWithChunks ==
    \A i \in DOMAIN downstream :
        IsTerminal(downstream[i]) =>
            ((downstream[i].obj.finish_reason = "tool_calls")
                <=> (\E j \in 1..(i - 1) : HasToolCalls(downstream[j])))

\* payloads that parse as JSON: an object, an array, a string, null, and objects
\* whose item is null, a string, or an object
Payloads ==
    {JEmptyObj, JArray, JString("s"), JNone, JItemNull,
     JsonValue("dict", Absent, "str", Absent, Absent, Absent, Absent, Absent),
     JItem("reasoning"), JItem("message"), JDelta("C")}

\* C36: in a stream whose first event is a recognized event with a payload that
\* parses as JSON, translating that event does not raise.
C36_HandlersDoNotRaise ==
    (pc = "running" /\ consumed = <<>>) =>
        \A n \in RecognizedNames : \A o \in Payloads :
            ~Translate(self, SSEEvent(n, "json", o)).raised

\* C37: once the whole stream has been fed and end_of_input called, a final line
\* without a line end that is not a comment has contributed to the events: the
\* events are those of the same stream with that line terminated.
C37_NoFieldLineLost ==
    (/\ spc = "feeding" /\ wire = <<>> /\ flushes >= 1
     /\ decoder.buffer # <<>> /\ Head(decoder.buffer) # ":") =>
        events = AllEvents(decoder.full_buffer \o <<LF>>)

(***************************************************************************)
(* Properties of the upstream body and of the diagnostic.                  *)
(***************************************************************************)
\* C31: in the body built from a payload holding both max_tokens and
\* max_output_tokens, max_output_tokens is the payload's max_tokens, whatever its
\* value; and from a payload holding user, prompt_cache_key is the payload's user.
C31_FirstWins ==
    dpc = "adapted" =>
        /\ (inbound.max_tokens # <<>> /\ inbound.max_output_tokens # <<>>)
               => responses_body.max_output_tokens = inbound.max_tokens
        /\ inbound.user # <<>> => responses_body.prompt_cache_key = inbound.user

\* sub occurs in s as a run of consecutive characters
Contains(s, sub) ==
    \E i \in 0..(Len(s) - Len(sub)) : SubSeq(s, i + 1, i + Len(sub)) = sub

\* C32: in the report returned for a non-success status, the prompt_cache_key of
\* the request body does not contain the whole key that was sent; instructions are
\* at most seven characters of the instructions followed by "..."; tools and input
\* are placeholders holding their counts.
C32_ReportRedacted ==
    dpc = "reported" =>
        LET sent == ResponsesBody(inbound)
            body == report.request_body[1]
        IN /\ (sent.prompt_cache_key # <<>> /\ sent.prompt_cache_key[1] # <<>>)
                  => /\ body.prompt_cache_key # <<>>
                     /\ ~Contains(body.prompt_cache_key[1], sent.prompt_cache_key[1])
           /\ sent.instructions # <<>>
                  => \E n \in 0..7 :
                         body.instructions = <<Take(sent.instructions[1], n) \o Ellipsis>>
           /\ sent.tools # <<>>
                  => body.tools = <<Redacted(sent.tools[1], "tools")>>
           /\ sent.input # <<>>
                  => body.input = <<Redacted(sent.input[1], "input items")>>

====
